---- MODULE Spec2Model ----
(***************************************************************************)
(* A model of the bible-viewer timeline pipeline:                          *)
(*   scripts/build_research_dataset.py  candidate extraction, quotas,      *)
(*                                      chronology edges, DAG validation   *)
(*   scripts/enrich_gospel_parallels.py fuzzy parallel matcher             *)
(*   scripts/build_web_data.py          snapshot normalizer                *)
(*   launcher_gui.py                    the launcher window and its server *)
(* Every component is a batch program; each has its own specification      *)
(* (SpecQuota, SpecCandidates, SpecBuild, SpecNorm, SpecMatcher) over the   *)
(* shared variables, the other components' variables staying idle;         *)
(* SpecSelect is the selection and numbering of the events, SpecBuilders   *)
(* the two builders side by side.  SpecPick is pick_evenly step by step,   *)
(* SpecTopo is topological_ok on any edge list, SpecAllVerses the          *)
(* whole-corpus mode of build_web_data.py, SpecLauncher the launcher.      *)
(* SpecFreshNorm and SpecFreshMatch hand the files of a fresh build to the *)
(* normalizer and to the matcher; SpecRerun runs the extraction twice on   *)
(* one source folder.                                                      *)
(* Book names and titles are Korean in the source; they are romanised      *)
(* here because module strings are ASCII.                                  *)
(***************************************************************************)
EXTENDS Integers, Sequences, FiniteSets, TLC

VARIABLES
    \* proportional_quotas (build_research_dataset.py:258-299)
    group_counts,   \* candidate count per book, in dict (insertion) order
    target,         \* the global target
    quotas,         \* quota per book, same indexing as group_counts
    current,        \* running sum of quotas
    worklist,       \* `expandable` / `reducible`, after its sort
    idx,            \* round-robin index of the running loop
    qpc,            \* position in proportional_quotas
    \* build_candidate_events (build_research_dataset.py:207-255)
    by_book,        \* per book: narrative flag and the heading flag of each verse
    candidates,     \* candidate events produced so far
    cpc,
    \* main of build_research_dataset.py: selection and numbering (422-456)
    grouped,        \* per book (its canonical order): number of candidates
    pick_quota,     \* per book: its quota
    selected_candidates,
    events_rows,    \* rows of events.csv
    select_pc,
    \* main of build_research_dataset.py: events, edges, validation
    event_objects,  \* the selected events in sequence order
    evidence_rows,  \* the evidence rows, direct then parallel
    chronology_rows,\* the chronology edge rows
    written,        \* the output files written so far, in order
    build_pc,
    \* build_from_research (build_web_data.py:264-286)
    snapshot,       \* the three CSV tables of the curated snapshot
    payload,        \* the normalized payload, or the exception raised
    output,         \* the JSON document in the output file, if written
    norm_pc,
    \* main of enrich_gospel_parallels.py
    events,         \* rows of events.csv
    evidence,       \* rows of evidence_verses.csv (the file on disk)
    added,          \* len(additions) of each run so far
    before_run,     \* the evidence file as it was before the latest run
    \* pick_evenly (build_research_dataset.py:302-337), step by step
    pe_items,       \* items
    pe_quota,       \* quota
    pe_unique,      \* unique
    pe_seen,        \* seen
    pe_result,      \* the list returned
    pe_pc,
    \* topological_ok (build_research_dataset.py:378-399)
    tp_nodes,       \* nodes
    tp_edges,       \* edges
    tp_result,      \* the value returned
    tp_pc,
    \* build_from_all_verses (build_web_data.py:289-404)
    av_files,       \* per book, the verse lines of its file in file order
    av_chapters,    \* chapters, each entry with its versesByChapter list
    av_edges,       \* edges
    av_payload,     \* the payload returned
    av_pc,
    \* TimelineLauncher (launcher_gui.py)
    server_process, \* self.server_process: 0 for None, else a process of procs
    procs,          \* the server processes spawned so far, running or exited
    web_data,       \* whether WEB_DATA exists
    port_var,       \* self.port_var
    status,         \* the text of the status label
    window,         \* the root window: open or destroyed
    \* main of build_research_dataset.py (409-456), run again on one corpus
    rr_corpus,      \* the candidate count of every book file of the folder
    rr_noise,       \* how the float keys of equal fractions compare
    rr_runs         \* per finished run: listing, quotas, selected, event ids

qvars == <<group_counts, target, quotas, current, worklist, idx, qpc>>
cvars == <<by_book, candidates, cpc>>
bvars == <<event_objects, evidence_rows, chronology_rows, written, build_pc>>
nvars == <<snapshot, payload, output, norm_pc>>
mvars == <<events, evidence, added, before_run>>
svars == <<grouped, pick_quota, selected_candidates, events_rows, select_pc>>
pvars == <<pe_items, pe_quota, pe_unique, pe_seen, pe_result, pe_pc>>
tvars == <<tp_nodes, tp_edges, tp_result, tp_pc>>
avars == <<av_files, av_chapters, av_edges, av_payload, av_pc>>
lvars == <<server_process, procs, web_data, port_var, status, window>>
rvars == <<rr_corpus, rr_noise, rr_runs>>
vars == <<qvars, cvars, bvars, nvars, mvars, svars, pvars, tvars, avars, lvars, rvars>>

-----------------------------------------------------------------------------
(* Bounds of the model *)
MaxBooks == 4
MaxCount == 5
MaxTarget == 6
MaxVerses == 4
MaxEvents == 4
MaxEvidenceRows == 2
MaxEdgeRows == 2
MaxMatcherEvents == 2
MaxDirectRows == 1
MaxRuns == 2
MaxCandidates == 4
MaxItems == 5
MaxTopoEdges == 3
MaxLines == 3
MaxSpawns == 3
MaxHeadings == 2
MaxRerunTarget == 3

-----------------------------------------------------------------------------
(* Helpers *)
Min(a, b) == IF a < b THEN a ELSE b
Max(a, b) == IF a > b THEN a ELSE b

RECURSIVE SumSeq(_)
SumSeq(s) == IF s = <<>> THEN 0 ELSE Head(s) + SumSeq(Tail(s))

\* F applied to the value of v, v being evaluated once.
Apply(F(_), v) == CHOOSE r \in {F(x) : x \in {v}} : TRUE

\* All arrangements of the finite set S as a sequence without repetition.
Arrangements(S) ==
    {s \in [1..Cardinality(S) -> S] : \A i, j \in DOMAIN s : i # j => s[i] # s[j]}

\* A set of integers as an ascending sequence.
RECURSIVE Ascending(_)
Ascending(S) ==
    IF S = {} THEN <<>>
    ELSE LET m == CHOOSE x \in S : \A y \in S : x <= y
         IN  <<m>> \o Ascending(S \ {m})

-----------------------------------------------------------------------------
(* The idle values of each component's variables *)
QuotaIdle ==
    /\ group_counts = <<>> /\ target = 0 /\ quotas = <<>> /\ current = 0
    /\ worklist = <<>> /\ idx = 0 /\ qpc = "idle"
CandidatesIdle ==
    by_book = <<>> /\ candidates = <<>> /\ cpc = [at |-> "idle", book |-> 0]
BuildIdle ==
    /\ event_objects = <<>> /\ evidence_rows = <<>> /\ chronology_rows = <<>>
    /\ written = <<>> /\ build_pc = "idle"
NormIdle == snapshot = <<>> /\ payload = <<>> /\ output = <<>> /\ norm_pc = "idle"
SelectIdle ==
    /\ grouped = <<>> /\ pick_quota = <<>> /\ selected_candidates = <<>>
    /\ events_rows = <<>> /\ select_pc = [at |-> "idle", book |-> 0]
MatcherIdle == events = <<>> /\ evidence = <<>> /\ added = <<>> /\ before_run = <<>>
PickIdle ==
    /\ pe_items = <<>> /\ pe_quota = 0 /\ pe_unique = <<>> /\ pe_seen = {}
    /\ pe_result = <<>> /\ pe_pc = "idle"
TopoIdle == tp_nodes = {} /\ tp_edges = <<>> /\ tp_result = FALSE /\ tp_pc = "idle"
AllVersesIdle ==
    /\ av_files = <<>> /\ av_chapters = <<>> /\ av_edges = <<>> /\ av_payload = <<>>
    /\ av_pc = [at |-> "idle", file |-> 0]
LauncherIdle ==
    /\ server_process = 0 /\ procs = <<>> /\ web_data = FALSE /\ port_var = 0
    /\ status = "" /\ window = "none"
RerunIdle == rr_corpus = <<>> /\ rr_noise = "" /\ rr_runs = <<>>

-----------------------------------------------------------------------------
(* proportional_quotas                                                      *)

\* total = sum(group_counts.values())
Total == SumSeq(group_counts)

\* int(target * cnt / total): the quotient is non-negative, so int() is floor.
RawQuota(cnt) == (target * cnt) \div Total

InitialQuotaNoFloor(cnt) == Min(RawQuota(cnt), cnt)

InitialQuotaNoCap(cnt) == Max(1, RawQuota(cnt))

\* lines 263-264: max(1, int(...)) then min(quota, cnt)
InitialQuota(cnt) == Min(Max(1, RawQuota(cnt)), cnt)

\* fractions[book] = target*cnt/total - int(target*cnt/total), compared through
\* its numerator over the common denominator total.
Fraction(book) == (target * group_counts[book]) % Total

\* list.sort(key=fractions) of the books in S.  Distinct fractions differ by at
\* least 1/total and keep their order in floating point; books whose exact
\* fractions are equal may come out in either order (the float keys
\* q - int(q) of equal exact fractions differ in the last bits when the
\* integer parts differ), so every order of the ties is allowed.
SortedByFraction(S, descending) ==
    {s \in Arrangements(S) :
        \A i, j \in DOMAIN s : i < j =>
            IF descending THEN Fraction(s[i]) >= Fraction(s[j])
                          ELSE Fraction(s[i]) <= Fraction(s[j])}

StillShortOffByOne(cur, tgt) == cur + 1 < tgt

\* lines 273 and 277: current < target
StillShort(cur, tgt) == cur < tgt

\* lines 286 and 290: current > target
Surplus(cur, tgt) == cur > tgt

\* lines 283 and 296: the iteration cap of both loops
LoopCap(len) == len * (target + 2)

QuotaInputs ==
    UNION {[1..n -> 0..MaxCount] : n \in 0..MaxBooks}

\* The scenario of the spec: {A:100, B:10, C:2}, target 20.
QuotaScenario == [counts |-> <<100, 10, 2>>, target |-> 20]

InitQuota ==
    /\ \/ group_counts \in QuotaInputs /\ target \in 0..MaxTarget
       \/ group_counts = QuotaScenario.counts /\ target = QuotaScenario.target
    /\ quotas = <<>> /\ current = 0 /\ worklist = <<>> /\ idx = 0
    /\ qpc = "start"
    /\ CandidatesIdle /\ BuildIdle /\ NormIdle /\ MatcherIdle /\ SelectIdle
    /\ PickIdle /\ TopoIdle /\ AllVersesIdle /\ LauncherIdle /\ RerunIdle

\* lines 259-261: no candidate at all
QReturnZero ==
    /\ qpc = "start" /\ Total = 0
    /\ quotas' = [b \in DOMAIN group_counts |-> 0]
    /\ qpc' = "done"
    /\ UNCHANGED <<group_counts, target, current, worklist, idx>>
    /\ UNCHANGED <<cvars, bvars, nvars, mvars, svars>>
    /\ UNCHANGED <<pvars, tvars, avars, lvars, rvars>>

\* lines 263-271: floor, floor-to-1, cap, and the running sum
QFloorCap ==
    /\ qpc = "start" /\ Total # 0
    /\ quotas' = [b \in DOMAIN group_counts |-> InitialQuota(group_counts[b])]
    /\ current' = SumSeq(quotas')
    /\ qpc' = "distribute"
    /\ UNCHANGED <<group_counts, target, worklist, idx>>
    /\ UNCHANGED <<cvars, bvars, nvars, mvars, svars>>
    /\ UNCHANGED <<pvars, tvars, avars, lvars, rvars>>

\* lines 273-276
QBeginExpand ==
    /\ qpc = "distribute" /\ StillShort(current, target)
    /\ worklist' \in SortedByFraction(
            {b \in DOMAIN group_counts : quotas[b] < group_counts[b]}, TRUE)
    /\ idx' = 0
    /\ qpc' = "expand"
    /\ UNCHANGED <<group_counts, target, quotas, current>>
    /\ UNCHANGED <<cvars, bvars, nvars, mvars, svars>>
    /\ UNCHANGED <<pvars, tvars, avars, lvars, rvars>>

QSkipExpand ==
    /\ qpc = "distribute" /\ ~StillShort(current, target)
    /\ qpc' = "surplus"
    /\ UNCHANGED <<group_counts, target, quotas, current, worklist, idx>>
    /\ UNCHANGED <<cvars, bvars, nvars, mvars, svars>>
    /\ UNCHANGED <<pvars, tvars, avars, lvars, rvars>>

\* lines 277-284: one iteration of the remainder loop
QExpandStep ==
    /\ qpc = "expand" /\ StillShort(current, target) /\ worklist # <<>>
    /\ LET book == worklist[(idx % Len(worklist)) + 1]
       IN  IF quotas[book] < group_counts[book]
           THEN /\ quotas' = [quotas EXCEPT ![book] = @ + 1]
                /\ current' = current + 1
           ELSE UNCHANGED <<quotas, current>>
    /\ idx' = idx + 1
    /\ qpc' = IF idx' > LoopCap(Len(worklist)) THEN "surplus" ELSE "expand"
    /\ UNCHANGED <<group_counts, target, worklist>>
    /\ UNCHANGED <<cvars, bvars, nvars, mvars, svars>>
    /\ UNCHANGED <<pvars, tvars, avars, lvars, rvars>>

QExpandExit ==
    /\ qpc = "expand" /\ ~(StillShort(current, target) /\ worklist # <<>>)
    /\ qpc' = "surplus"
    /\ UNCHANGED <<group_counts, target, quotas, current, worklist, idx>>
    /\ UNCHANGED <<cvars, bvars, nvars, mvars, svars>>
    /\ UNCHANGED <<pvars, tvars, avars, lvars, rvars>>

\* lines 286-289
QBeginReduce ==
    /\ qpc = "surplus" /\ Surplus(current, target)
    /\ worklist' \in SortedByFraction(
            {b \in DOMAIN group_counts : quotas[b] > 1}, FALSE)
    /\ idx' = 0
    /\ qpc' = "reduce"
    /\ UNCHANGED <<group_counts, target, quotas, current>>
    /\ UNCHANGED <<cvars, bvars, nvars, mvars, svars>>
    /\ UNCHANGED <<pvars, tvars, avars, lvars, rvars>>

QSkipReduce ==
    /\ qpc = "surplus" /\ ~Surplus(current, target)
    /\ qpc' = "done"
    /\ UNCHANGED <<group_counts, target, quotas, current, worklist, idx>>
    /\ UNCHANGED <<cvars, bvars, nvars, mvars, svars>>
    /\ UNCHANGED <<pvars, tvars, avars, lvars, rvars>>

\* lines 290-297: one iteration of the surplus loop
QReduceStep ==
    /\ qpc = "reduce" /\ Surplus(current, target) /\ worklist # <<>>
    /\ LET book == worklist[(idx % Len(worklist)) + 1]
       IN  IF quotas[book] > 1
           THEN /\ quotas' = [quotas EXCEPT ![book] = @ - 1]
                /\ current' = current - 1
           ELSE UNCHANGED <<quotas, current>>
    /\ idx' = idx + 1
    /\ qpc' = IF idx' > LoopCap(Len(worklist)) THEN "done" ELSE "reduce"
    /\ UNCHANGED <<group_counts, target, worklist>>
    /\ UNCHANGED <<cvars, bvars, nvars, mvars, svars>>
    /\ UNCHANGED <<pvars, tvars, avars, lvars, rvars>>

\* line 299, reached from the surplus loop
QReduceExit ==
    /\ qpc = "reduce" /\ ~(Surplus(current, target) /\ worklist # <<>>)
    /\ qpc' = "done"
    /\ UNCHANGED <<group_counts, target, quotas, current, worklist, idx>>
    /\ UNCHANGED <<cvars, bvars, nvars, mvars, svars>>
    /\ UNCHANGED <<pvars, tvars, avars, lvars, rvars>>

NextQuota ==
    \/ QReturnZero
    \/ QFloorCap
    \/ QBeginExpand
    \/ QSkipExpand
    \/ QExpandStep
    \/ QExpandExit
    \/ QBeginReduce
    \/ QSkipReduce
    \/ QReduceStep
    \/ QReduceExit

SpecQuota == InitQuota /\ [][NextQuota]_vars

\* Books that have at least one candidate.
NonEmptyBooks == {b \in DOMAIN group_counts : group_counts[b] > 0}

\* The floor/cap quotas did not already sum to the target.
NeededCorrection ==
    Total # 0 /\
    SumSeq([b \in DOMAIN group_counts |-> InitialQuota(group_counts[b])]) # target

\* C1 (as stated): for every map of candidate counts and every target the
\* returned quotas sum to exactly the target.
QuotaSumIsTarget ==
    qpc = "done" => SumSeq(quotas) = target

\* C1 (amended): when the target is at least the number of books that have
\* candidates and at most the total number of candidates, the returned quotas
\* sum to exactly the target.
QuotaSumIsTargetWhenFeasible ==
    (qpc = "done" /\ Cardinality(NonEmptyBooks) <= target /\ target <= Total)
        => SumSeq(quotas) = target

QuotaSumWitness ==
    /\ qpc = "done" /\ Cardinality(NonEmptyBooks) <= target /\ target <= Total
    /\ NeededCorrection /\ idx > 0 /\ Len(group_counts) >= 2
    /\ SumSeq(quotas) = target

\* C2: once the floor/cap step has run, no book's quota exceeds its candidate
\* count: after that step, after every remainder step and every surplus step.
QuotaWithinPool ==
    qpc \notin {"idle", "start"} =>
        \A b \in DOMAIN group_counts : quotas[b] <= group_counts[b]

QuotaWithinPoolWitness ==
    /\ qpc = "done" /\ Total # 0
    /\ \E b \in DOMAIN group_counts :
          RawQuota(group_counts[b]) > group_counts[b] /\ quotas[b] = group_counts[b]

\* C3: every book with at least one candidate has a quota of at least 1, after
\* the floor/cap step and after every later step, the surplus removal included.
EveryBookKeepsOne ==
    qpc \notin {"idle", "start"} =>
        \A b \in DOMAIN group_counts : group_counts[b] > 0 => quotas[b] >= 1

EveryBookKeepsOneWitness ==
    /\ qpc = "done" /\ Total # 0 /\ idx > 0
    /\ Surplus(SumSeq([b \in DOMAIN group_counts |-> InitialQuota(group_counts[b])]),
               target)
    /\ \E b \in DOMAIN group_counts :
          group_counts[b] > 0 /\ RawQuota(group_counts[b]) = 0 /\ quotas[b] = 1

\* C4: {A:100, B:10, C:2} with target 20 gives quotas within 1 of
\* {A:17, B:2, C:1} that sum to 20, C staying within its pool of 2.
Near(x, y) == x - y <= 1 /\ y - x <= 1

ScenarioQuotas ==
    (qpc = "done" /\ group_counts = QuotaScenario.counts /\ target = QuotaScenario.target) =>
        /\ Near(quotas[1], 17) /\ Near(quotas[2], 2) /\ Near(quotas[3], 1)
        /\ SumSeq(quotas) = 20
        /\ quotas[3] <= 2

ScenarioQuotasWitness ==
    /\ qpc = "done" /\ group_counts = QuotaScenario.counts /\ target = QuotaScenario.target
    /\ quotas = <<18, 1, 1>>

-----------------------------------------------------------------------------
(* build_candidate_events                                                   *)
(* A book of by_book is a record [narrative, heading]: whether its name is  *)
(* in NARRATIVE_BOOKS, and for each verse of its list (sorted by chapter    *)
(* and verse in load_verses, and identified by its position 1..n) whether   *)
(* HEADING_RE matches its text.  by_book is in file order, which is         *)
(* canonical order.                                                         *)

BookInputs ==
    UNION {[narrative : BOOLEAN, heading : [1..n -> BOOLEAN]] : n \in 0..MaxVerses}

\* Two books are enough to show that the books do not interfere and that the
\* trailing sort keeps canonical order.
ByBookInputs == UNION {[1..n -> BookInputs] : n \in 1..2}

\* The scenario of the spec: 10 verses, headings at verses 1 and 6.
ScenarioBook == [narrative |-> TRUE, heading |-> [i \in 1..10 |-> i \in {1, 6}]]

\* lines 214-223: positions of the verses that carry a heading, ascending
RECURSIVE HeadingPositionsFrom(_, _)
HeadingPositionsFrom(heading, i) ==
    IF i > Len(heading) THEN <<>>
    ELSE (IF heading[i] THEN <<i>> ELSE <<>>) \o HeadingPositionsFrom(heading, i + 1)

heading_positions(heading) == HeadingPositionsFrom(heading, 1)

SpanEndAtNextHeading(hp, i, n) == IF i + 1 <= Len(hp) THEN hp[i + 1] ELSE n

\* line 229: end_idx = heading_positions[i+1][0] - 1, or len(verses) - 1
SpanEnd(hp, i, n) == IF i + 1 <= Len(hp) THEN hp[i + 1] - 1 ELSE n

\* lines 228-252: the candidates of one book, an empty slice being skipped
RECURSIVE BookCandidatesFrom(_, _, _, _)
BookCandidatesFrom(b, hp, n, i) ==
    IF i > Len(hp) THEN <<>>
    ELSE LET start_idx == hp[i]
             end_idx == SpanEnd(hp, i, n)
         IN  (IF start_idx > end_idx THEN <<>>
              ELSE <<[book |-> b, start_idx |-> start_idx, end_idx |-> end_idx]>>)
             \o BookCandidatesFrom(b, hp, n, i + 1)

\* line 254: candidates.sort(key=(canonical_order, start_chapter, start_verse));
\* the key of a candidate is (book, start_idx) and the sort is stable.
CandidateBefore(c, d) ==
    c.book < d.book \/ (c.book = d.book /\ c.start_idx < d.start_idx)

RECURSIVE InsertCandidate(_, _)
InsertCandidate(sorted, c) ==
    IF sorted = <<>> THEN <<c>>
    ELSE IF CandidateBefore(c, sorted[Len(sorted)])
         THEN Append(InsertCandidate(SubSeq(sorted, 1, Len(sorted) - 1), c),
                     sorted[Len(sorted)])
         ELSE Append(sorted, c)

RECURSIVE SortCandidates(_)
SortCandidates(cs) ==
    IF cs = <<>> THEN <<>>
    ELSE InsertCandidate(SortCandidates(SubSeq(cs, 1, Len(cs) - 1)), cs[Len(cs)])

InitCandidates ==
    /\ by_book \in ByBookInputs \cup {<<ScenarioBook>>}
    /\ candidates = <<>>
    /\ cpc = [at |-> "loop", book |-> 1]
    /\ QuotaIdle /\ BuildIdle /\ NormIdle /\ MatcherIdle /\ SelectIdle
    /\ PickIdle /\ TopoIdle /\ AllVersesIdle /\ LauncherIdle /\ RerunIdle

\* lines 210-212 and 225-226: a book outside NARRATIVE_BOOKS, or without heading
CSkipBook ==
    /\ cpc.at = "loop" /\ cpc.book <= Len(by_book)
    /\ \/ ~by_book[cpc.book].narrative
       \/ heading_positions(by_book[cpc.book].heading) = <<>>
    /\ cpc' = [cpc EXCEPT !.book = @ + 1]
    /\ UNCHANGED <<by_book, candidates>>
    /\ UNCHANGED <<qvars, bvars, nvars, mvars, svars>>
    /\ UNCHANGED <<pvars, tvars, avars, lvars, rvars>>

\* lines 210-252: one narrative book with headings
CExtractBook ==
    /\ cpc.at = "loop" /\ cpc.book <= Len(by_book)
    /\ by_book[cpc.book].narrative
    /\ heading_positions(by_book[cpc.book].heading) # <<>>
    /\ candidates' = candidates \o
          BookCandidatesFrom(cpc.book, heading_positions(by_book[cpc.book].heading),
                             Len(by_book[cpc.book].heading), 1)
    /\ cpc' = [cpc EXCEPT !.book = @ + 1]
    /\ UNCHANGED by_book
    /\ UNCHANGED <<qvars, bvars, nvars, mvars, svars>>
    /\ UNCHANGED <<pvars, tvars, avars, lvars, rvars>>

\* lines 254-255
CSortReturn ==
    /\ cpc.at = "loop" /\ cpc.book > Len(by_book)
    /\ candidates' = SortCandidates(candidates)
    /\ cpc' = [cpc EXCEPT !.at = "done"]
    /\ UNCHANGED by_book
    /\ UNCHANGED <<qvars, bvars, nvars, mvars, svars>>
    /\ UNCHANGED <<pvars, tvars, avars, lvars, rvars>>

NextCandidates ==
    \/ CSkipBook
    \/ CExtractBook
    \/ CSortReturn

SpecCandidates == InitCandidates /\ [][NextCandidates]_vars

\* The candidates returned for book b, in the order returned.
CandidatesOf(b) == SelectSeq(candidates, LAMBDA c : c.book = b)

\* C9: for every narrative book there is exactly one candidate per heading
\* verse; its span starts at the heading verse and ends just before the next
\* heading verse or at the last verse of the book; the spans are non-empty,
\* pairwise disjoint and contiguous; 10 verses with headings at 1 and 6 give
\* exactly the spans [1-5] and [6-10].
OneSpanPerHeading ==
    cpc.at = "done" =>
        /\ \A b \in DOMAIN by_book : by_book[b].narrative =>
             LET h == by_book[b].heading
                 cs == CandidatesOf(b)
             IN  /\ \A v \in DOMAIN h :
                       h[v] <=> Cardinality({k \in DOMAIN cs : cs[k].start_idx = v}) = 1
                 /\ \A k \in DOMAIN cs :
                       /\ h[cs[k].start_idx]
                       /\ cs[k].start_idx <= cs[k].end_idx
                       /\ \A v \in (cs[k].start_idx + 1)..cs[k].end_idx : ~h[v]
                       /\ cs[k].end_idx = Len(h) \/ h[cs[k].end_idx + 1]
                 /\ \A k \in DOMAIN cs : k + 1 \in DOMAIN cs =>
                       cs[k + 1].start_idx = cs[k].end_idx + 1
                 /\ \A k, l \in DOMAIN cs : k # l =>
                       (cs[k].end_idx < cs[l].start_idx \/ cs[l].end_idx < cs[k].start_idx)
        /\ by_book = <<ScenarioBook>> =>
             candidates = << [book |-> 1, start_idx |-> 1, end_idx |-> 5],
                             [book |-> 1, start_idx |-> 6, end_idx |-> 10] >>

OneSpanPerHeadingWitness ==
    /\ cpc.at = "done"
    /\ \E b \in DOMAIN by_book :
          /\ by_book[b].narrative
          /\ Len(CandidatesOf(b)) >= 2
          /\ \E k \in DOMAIN CandidatesOf(b) :
                CandidatesOf(b)[k].end_idx > CandidatesOf(b)[k].start_idx
          /\ ~by_book[b].heading[1]

-----------------------------------------------------------------------------
(* main of build_research_dataset.py, lines 422-456: the candidates of      *)
(* every book are thinned to the book's quota by pick_evenly, the picks     *)
(* are sorted, and the events are numbered.  A book is its canonical order; *)
(* a candidate is [book, start_idx] as build_candidate_events returns it,   *)
(* start_idx standing for (start_chapter, start_verse).                     *)

\* grouped[book] (lines 422-424): the candidates of a book, in the order of
\* the sorted candidate list
ItemsOf(book) == [k \in 1..grouped[book] |-> [book |-> book, start_idx |-> k]]

PickRangeStart(i, n, quota) == (i * n) \div quota

\* lines 313-315: the index picked for round i of quota rounds over n items
PickIndex(i, n, quota) ==
    LET start == (i * n) \div quota
        end == ((i + 1) * n) \div quota
    IN  (start + Max(start, end - 1)) \div 2

\* lines 310-316: selected, one item per round
Selected(items, quota) ==
    [i \in 1..quota |-> items[PickIndex(i - 1, Len(items), quota) + 1]]

\* lines 321 and 328: key = (item.book_name, item.start_ref)
KeyOf(item) == <<item.book, item.start_idx>>

\* lines 318-324: the first occurrence of every key
Unique(selected) ==
    SelectSeq([k \in DOMAIN selected |->
                  [item |-> selected[k],
                   first |-> \A j \in 1..(k - 1) :
                                 KeyOf(selected[j]) # KeyOf(selected[k])]],
              LAMBDA e : e.first)

\* lines 327-334: one pass of the for loop.  An item is appended when its
\* key is not in seen, which holds the keys of unique and of the items the
\* pass has appended; the pass ends at the quota.
Refill(unique, items, quota) ==
    LET fresh == SelectSeq(
                    [k \in DOMAIN items |->
                        [item |-> items[k],
                         first |-> /\ \A u \in DOMAIN unique :
                                         KeyOf(unique[u]) # KeyOf(items[k])
                                   /\ \A j \in 1..(k - 1) :
                                         KeyOf(items[j]) # KeyOf(items[k])]],
                    LAMBDA e : e.first)
        unseen == [k \in DOMAIN fresh |-> fresh[k].item]
    IN  unique \o SubSeq(unseen, 1, Min(quota - Len(unique), Len(unseen)))

\* pick_evenly (lines 302-337) on a list without a repeated key, where one
\* pass of the for loop fills the quota
pick_evenly(items, quota) ==
    IF quota >= Len(items) THEN items
    ELSE IF quota <= 0 THEN <<>>
    ELSE IF quota = 1 THEN <<items[(Len(items) \div 2) + 1]>>
    ELSE LET unique == [k \in DOMAIN Unique(Selected(items, quota)) |->
                           Unique(Selected(items, quota))[k].item]
         IN  SortCandidates(Refill(unique, items, quota))

EventIdParity(seq) == <<0, 0, 0, seq % 2>>

\* line 439: f"EVT{seq:04d}", the decimal digits of seq in four places
EventIdOf(seq) ==
    <<seq \div 1000, (seq \div 100) % 10, (seq \div 10) % 10, seq % 10>>

\* The candidate counts of up to three books, and a quota for each as
\* proportional_quotas returns them: between 1 and the count.
GroupedInputs ==
    UNION {[S -> 1..MaxCandidates] : S \in (SUBSET {1, 2, 3}) \ {{}}}

InitSelect ==
    /\ grouped \in GroupedInputs
    /\ pick_quota \in [DOMAIN grouped -> 1..MaxCandidates]
    /\ \A b \in DOMAIN grouped : pick_quota[b] <= grouped[b]
    /\ selected_candidates = <<>>
    /\ events_rows = <<>>
    /\ select_pc = [at |-> "pick", book |-> 1]
    /\ QuotaIdle /\ CandidatesIdle /\ BuildIdle /\ NormIdle /\ MatcherIdle
    /\ PickIdle /\ TopoIdle /\ AllVersesIdle /\ LauncherIdle /\ RerunIdle

\* lines 430-431: the books in canonical order, one per step
SPickBook ==
    /\ select_pc.at = "pick" /\ select_pc.book <= Cardinality(DOMAIN grouped)
    /\ \E book \in {Ascending(DOMAIN grouped)[select_pc.book]} :
          selected_candidates' =
              selected_candidates \o pick_evenly(ItemsOf(book), pick_quota[book])
    /\ select_pc' = [select_pc EXCEPT !.book = @ + 1]
    /\ UNCHANGED <<grouped, pick_quota, events_rows>>
    /\ UNCHANGED <<qvars, cvars, bvars, nvars, mvars>>
    /\ UNCHANGED <<pvars, tvars, avars, lvars, rvars>>

\* line 433
SSortSelected ==
    /\ select_pc.at = "pick" /\ select_pc.book > Cardinality(DOMAIN grouped)
    /\ selected_candidates' = SortCandidates(selected_candidates)
    /\ select_pc' = [select_pc EXCEPT !.at = "number"]
    /\ UNCHANGED <<grouped, pick_quota, events_rows>>
    /\ UNCHANGED <<qvars, cvars, bvars, nvars, mvars>>
    /\ UNCHANGED <<pvars, tvars, avars, lvars, rvars>>

\* lines 435-456: sequence_index is str(seq), which stands for seq
SNumberEvents ==
    /\ select_pc.at = "number"
    /\ events_rows' =
          [seq \in DOMAIN selected_candidates |->
              [event_id |-> EventIdOf(seq), sequence_index |-> seq,
               candidate |-> selected_candidates[seq]]]
    /\ select_pc' = [select_pc EXCEPT !.at = "done"]
    /\ UNCHANGED <<grouped, pick_quota, selected_candidates>>
    /\ UNCHANGED <<qvars, cvars, bvars, nvars, mvars>>
    /\ UNCHANGED <<pvars, tvars, avars, lvars, rvars>>

NextSelect ==
    \/ SPickBook
    \/ SSortSelected
    \/ SNumberEvents

SpecSelect == InitSelect /\ [][NextSelect]_vars

\* C17: the selected events are numbered 1..N without gaps in ascending
\* (book, start) order, event_id is derived from the index and the event_ids
\* are pairwise distinct, and no candidate is selected as two events.
SelectedNumbered ==
    /\ \A i, j \in DOMAIN selected_candidates :
          i # j => selected_candidates[i] # selected_candidates[j]
    /\ select_pc.at = "done" =>
          /\ Len(events_rows) = Len(selected_candidates)
          /\ \A b \in DOMAIN grouped :
                Cardinality({k \in DOMAIN events_rows : events_rows[k].candidate.book = b})
                    = pick_quota[b]
          /\ \A k \in DOMAIN events_rows :
                /\ events_rows[k].sequence_index = k
                /\ events_rows[k].candidate.book \in DOMAIN grouped
                /\ events_rows[k].candidate.start_idx
                      \in 1..grouped[events_rows[k].candidate.book]
          /\ \A i, j \in DOMAIN events_rows :
                i < j =>
                   /\ CandidateBefore(events_rows[i].candidate, events_rows[j].candidate)
                   /\ events_rows[i].event_id # events_rows[j].event_id

SelectedNumberedWitness ==
    /\ select_pc.at = "done"
    /\ Len(events_rows) >= 4
    /\ \E b \in DOMAIN grouped : pick_quota[b] > 1 /\ pick_quota[b] < grouped[b]
    /\ \E b \in DOMAIN grouped : pick_quota[b] = 1 /\ grouped[b] > 2

-----------------------------------------------------------------------------
(* pick_evenly (lines 302-337) step by step, on any list a book's file can  *)
(* give.  A candidate is [book, start_idx, copy]: two heading verses of one *)
(* file that carry the same reference give two candidates of one key, told  *)
(* apart by copy.  The list is sorted by reference, as lines 202 and 254    *)
(* leave it.                                                                *)

\* The candidates of the references refs, a non-decreasing sequence
PickItems(refs) ==
    [k \in DOMAIN refs |->
        [book |-> 1, start_idx |-> refs[k],
         copy |-> 1 + Cardinality({j \in 1..(k - 1) : refs[j] = refs[k]})]]

InitPick ==
    /\ \E n \in 0..MaxItems :
          \E refs \in [1..n -> 1..MaxItems] :
              /\ \A i, j \in 1..n : i < j => refs[i] <= refs[j]
              /\ pe_items = PickItems(refs)
    /\ pe_quota \in 0..(MaxItems + 1)
    /\ pe_unique = <<>>
    /\ pe_seen = {}
    /\ pe_result = <<>>
    /\ pe_pc = "start"
    /\ QuotaIdle /\ CandidatesIdle /\ BuildIdle /\ NormIdle /\ MatcherIdle /\ SelectIdle
    /\ TopoIdle /\ AllVersesIdle /\ LauncherIdle /\ RerunIdle

\* lines 303-304
PReturnAll ==
    /\ pe_pc = "start" /\ pe_quota >= Len(pe_items)
    /\ pe_result' = pe_items
    /\ pe_pc' = "returned"
    /\ UNCHANGED <<pe_items, pe_quota, pe_unique, pe_seen>>
    /\ UNCHANGED <<qvars, cvars, bvars, nvars, mvars, svars, tvars, avars, lvars, rvars>>

\* lines 305-306
PReturnNone ==
    /\ pe_pc = "start" /\ pe_quota < Len(pe_items) /\ pe_quota <= 0
    /\ pe_result' = <<>>
    /\ pe_pc' = "returned"
    /\ UNCHANGED <<pe_items, pe_quota, pe_unique, pe_seen>>
    /\ UNCHANGED <<qvars, cvars, bvars, nvars, mvars, svars, tvars, avars, lvars, rvars>>

\* lines 307-308
PReturnMiddle ==
    /\ pe_pc = "start" /\ pe_quota < Len(pe_items) /\ pe_quota = 1
    /\ pe_result' = <<pe_items[(Len(pe_items) \div 2) + 1]>>
    /\ pe_pc' = "returned"
    /\ UNCHANGED <<pe_items, pe_quota, pe_unique, pe_seen>>
    /\ UNCHANGED <<qvars, cvars, bvars, nvars, mvars, svars, tvars, avars, lvars, rvars>>

\* lines 310-324: the rounds, then the first occurrence of every key
PStride ==
    /\ pe_pc = "start" /\ pe_quota < Len(pe_items) /\ pe_quota > 1
    /\ \E unique \in {Unique(Selected(pe_items, pe_quota))} :
          /\ pe_unique' = [k \in DOMAIN unique |-> unique[k].item]
          /\ pe_seen' = {KeyOf(unique[k].item) : k \in DOMAIN unique}
    /\ pe_pc' = "fill"
    /\ UNCHANGED <<pe_items, pe_quota, pe_result>>
    /\ UNCHANGED <<qvars, cvars, bvars, nvars, mvars, svars, tvars, avars, lvars, rvars>>

\* lines 326-334: the while loop finds unique short of the quota and the for
\* loop runs over the items once
PFillPass ==
    /\ pe_pc = "fill" /\ Len(pe_unique) < pe_quota
    /\ pe_unique' = Refill(pe_unique, pe_items, pe_quota)
    /\ pe_seen' = {KeyOf(pe_unique'[k]) : k \in DOMAIN pe_unique'}
    /\ UNCHANGED <<pe_items, pe_quota, pe_result, pe_pc>>
    /\ UNCHANGED <<qvars, cvars, bvars, nvars, mvars, svars, tvars, avars, lvars, rvars>>

\* lines 326 and 336-337: the while loop ends, unique is sorted and returned
PSortReturn ==
    /\ pe_pc = "fill" /\ Len(pe_unique) >= pe_quota
    /\ pe_result' = SortCandidates(pe_unique)
    /\ pe_pc' = "returned"
    /\ UNCHANGED <<pe_items, pe_quota, pe_unique, pe_seen>>
    /\ UNCHANGED <<qvars, cvars, bvars, nvars, mvars, svars, tvars, avars, lvars, rvars>>

NextPick ==
    \/ PReturnAll
    \/ PReturnNone
    \/ PReturnMiddle
    \/ PStride
    \/ PFillPass
    \/ PSortReturn

SpecPick == InitPick /\ [][NextPick]_vars

\* No two items of the list have the same key.
DistinctKeys ==
    \A i, j \in DOMAIN pe_items : i # j => KeyOf(pe_items[i]) # KeyOf(pe_items[j])

\* floor((s + e - 1) / 2) for the i-th of q equal-width ranges over n
\* indices, s = floor(i*n/q) and e = floor((i+1)*n/q)
RangeMidpoint(i, n, q) == (((i * n) \div q) + (((i + 1) * n) \div q) - 1) \div 2

\* C24 (as stated): for 1 <= quota < n the list returned holds exactly the
\* items at the midpoint indices of the quota ranges, quota = 1 included.
PicksAreRangeMidpoints ==
    (pe_pc = "returned" /\ 1 <= pe_quota /\ pe_quota < Len(pe_items)) =>
        /\ Len(pe_result) = pe_quota
        /\ \A i \in 0..(pe_quota - 1) :
              pe_result[i + 1] = pe_items[RangeMidpoint(i, Len(pe_items), pe_quota) + 1]

\* C24 (amended): for 2 <= quota < n the list returned holds the items at
\* the midpoint indices of the quota ranges, the first one of every key, and
\* when no two of these items share a key it holds exactly them; for
\* quota = 1 < n it holds the item at index floor(n/2), which is the midpoint
\* index floor((n-1)/2) only when n is odd.
PicksAreMidpointsOrMiddle ==
    (pe_pc = "returned" /\ 1 <= pe_quota /\ pe_quota < Len(pe_items)) =>
        /\ Len(pe_result) = pe_quota
        /\ pe_quota = 1 => pe_result[1] = pe_items[(Len(pe_items) \div 2) + 1]
        /\ pe_quota > 1 =>
              LET mid(i) == pe_items[RangeMidpoint(i, Len(pe_items), pe_quota) + 1]
                  rounds == 0..(pe_quota - 1)
              IN  /\ \A i \in rounds :
                        (\A j \in rounds : j < i => KeyOf(mid(j)) # KeyOf(mid(i)))
                            => \E k \in DOMAIN pe_result : pe_result[k] = mid(i)
                  /\ (\A i, j \in rounds : i # j => KeyOf(mid(i)) # KeyOf(mid(j)))
                        => \A i \in rounds : pe_result[i + 1] = mid(i)

PicksAreMidpointsOrMiddleWitness ==
    /\ pe_pc = "returned" /\ DistinctKeys
    /\ Len(pe_items) = 5 /\ pe_quota = 3
    /\ pe_result = <<pe_items[1], pe_items[2], pe_items[4]>>

\* C25: pick_evenly ends and returns min(quota, n) candidates, none of them
\* twice, in ascending order; a fill pass that begins short of the quota
\* finds a candidate to append (a pass that appends nothing leaves unique
\* and seen as they were, so the while loop of line 326 begins the same
\* pass again, without end).
PickReturnsQuota ==
    /\ (pe_pc = "fill" /\ Len(pe_unique) < pe_quota) =>
          \E k \in DOMAIN pe_items : KeyOf(pe_items[k]) \notin pe_seen
    /\ pe_pc = "returned" =>
          /\ Len(pe_result) = Min(pe_quota, Len(pe_items))
          /\ \A i, j \in DOMAIN pe_result : i # j => pe_result[i] # pe_result[j]
          /\ \A i, j \in DOMAIN pe_result :
                i < j => pe_result[i].start_idx <= pe_result[j].start_idx
          /\ \A i \in DOMAIN pe_result :
                \E k \in DOMAIN pe_items : pe_items[k] = pe_result[i]

-----------------------------------------------------------------------------
(* main of build_research_dataset.py, from the selected events on:          *)
(* evidence rows and the exact-heading parallel pass (lines 458-509),       *)
(* chronology edges (511-553), the validation (586-619) and the writing of  *)
(* the output files (622-751).  A selected candidate is a record            *)
(* [book, start_chapter, title, has_text]; it stands for a slice of one     *)
(* verse, has_text telling whether the text that goes into verse_text_kr    *)
(* is non-empty (a verse that holds nothing but its heading has none).      *)

\* NARRATIVE_BOOKS (lines 33-57), romanised.
NARRATIVE_BOOKS ==
    {"Genesis", "Exodus", "Numbers", "Deuteronomy", "Joshua", "Judges", "Ruth",
     "Samuel1", "Samuel2", "Kings1", "Kings2", "Chronicles1", "Chronicles2",
     "Ezra", "Nehemiah", "Esther", "Daniel", "Jonah",
     "Matthew", "Mark", "Luke", "John", "Acts"}

\* GOSPEL_BOOKS (line 59)
GOSPEL_BOOKS == {"Matthew", "Mark", "Luke", "John"}

\* canonical_order of load_verses (lines 163-169): the order number of the
\* file name, plus 39 for the second testament.
canonical_map(book) ==
    CASE book = "Genesis" -> 1      [] book = "Exodus" -> 2
      [] book = "Numbers" -> 4      [] book = "Deuteronomy" -> 5
      [] book = "Joshua" -> 6       [] book = "Judges" -> 7
      [] book = "Ruth" -> 8         [] book = "Samuel1" -> 9
      [] book = "Samuel2" -> 10     [] book = "Kings1" -> 11
      [] book = "Kings2" -> 12      [] book = "Chronicles1" -> 13
      [] book = "Chronicles2" -> 14 [] book = "Ezra" -> 15
      [] book = "Nehemiah" -> 16    [] book = "Esther" -> 17
      [] book = "Daniel" -> 27      [] book = "Jonah" -> 32
      [] book = "Matthew" -> 39 + 1 [] book = "Mark" -> 39 + 2
      [] book = "Luke" -> 39 + 3    [] book = "John" -> 39 + 4
      [] book = "Acts" -> 39 + 5

\* lane_tag (lines 340-361)
lane_tag(book_name, chapter) ==
    IF book_name = "Genesis"
    THEN (IF chapter <= 11 THEN "primeval_history" ELSE "patriarchal_era")
    ELSE IF book_name \in {"Exodus", "Numbers", "Deuteronomy"} THEN "exodus_wilderness"
    ELSE IF book_name = "Joshua" THEN "conquest_settlement"
    ELSE IF book_name \in {"Judges", "Ruth"} THEN "judges_period"
    ELSE IF book_name \in {"Samuel1", "Samuel2"} THEN "united_monarchy"
    ELSE IF book_name \in {"Kings1", "Kings2", "Chronicles1", "Chronicles2"}
         THEN "monarchy_exile"
    ELSE IF book_name \in {"Ezra", "Nehemiah", "Esther", "Daniel"} THEN "exile_return"
    ELSE IF book_name = "Jonah" THEN "prophetic_mission"
    ELSE IF book_name \in GOSPEL_BOOKS THEN "life_of_jesus"
    ELSE IF book_name = "Acts" THEN "early_church"
    ELSE "other"

\* The track ids of lines 526 and 551-553.
TrackIds ==
    {"track_main", "track_exodus_early", "track_exodus_late", "track_gospel_harmony"}

\* The books and chapters the selected candidates are drawn from: one book of
\* every lane, and both sides of the Genesis chapter split.
PlainPool ==
    {[book |-> "Genesis", start_chapter |-> 11], [book |-> "Genesis", start_chapter |-> 12],
     [book |-> "Exodus", start_chapter |-> 1],   [book |-> "Joshua", start_chapter |-> 1],
     [book |-> "Judges", start_chapter |-> 1],   [book |-> "Samuel1", start_chapter |-> 1],
     [book |-> "Kings1", start_chapter |-> 1],   [book |-> "Ezra", start_chapter |-> 1],
     [book |-> "Jonah", start_chapter |-> 1],    [book |-> "Acts", start_chapter |-> 1]}

\* The selected candidates: the plain ones with a title of their own; Gospel
\* candidates whose titles give the same heading key, two of them in one
\* book; a Gospel candidate whose title gives the empty key; and a candidate
\* whose verse is nothing but its heading.
SelectedPool ==
    {[book |-> c.book, start_chapter |-> c.start_chapter, title |-> "Story",
      has_text |-> TRUE] : c \in PlainPool}
    \cup
    {[book |-> "Matthew", start_chapter |-> 1, title |-> "!", has_text |-> TRUE],
     [book |-> "Matthew", start_chapter |-> 2, title |-> "Feeding", has_text |-> TRUE],
     [book |-> "Matthew", start_chapter |-> 3, title |-> "Feeding!", has_text |-> TRUE],
     [book |-> "Mark", start_chapter |-> 1, title |-> "Feeding", has_text |-> TRUE],
     [book |-> "Acts", start_chapter |-> 2, title |-> "Story", has_text |-> FALSE]}

\* line 433: selected_candidates is sorted by (canonical_order, start_chapter,
\* start_verse); two candidates of one chapter differ in their verse.
SelectedBefore(c, d) ==
    \/ canonical_map(c.book) < canonical_map(d.book)
    \/ c.book = d.book /\ c.start_chapter <= d.start_chapter

SelectedInputs ==
    UNION {{s \in [1..n -> SelectedPool] :
               \A i, j \in 1..n : i < j => SelectedBefore(s[i], s[j])}
           : n \in 0..MaxEvents}

\* lines 438-456: event_id is EVT<seq>, a decimal rendering of seq of at least
\* four digits, so distinct seq give distinct ids; the id is modelled by seq.
EventObjects(selected) ==
    [seq \in DOMAIN selected |->
        [event_id |-> seq, book |-> selected[seq].book,
         start_chapter |-> selected[seq].start_chapter,
         title |-> selected[seq].title, has_text |-> selected[seq].has_text,
         lane |-> lane_tag(selected[seq].book, selected[seq].start_chapter)]]

\* TRANSLATION (line 31), romanised
TRANSLATION == "KRV"

\* normalize_heading_key (lines 112-114) on the titles of the model:
\* every character that is not a letter or a digit is dropped
normalize_heading_key(title) ==
    CASE title = "Feeding!" -> "Feeding"
      [] title = "!" -> ""
      [] OTHER -> title

\* lines 461-476: one direct row per verse of the event's slice; verse_of is
\* the event whose verse the row cites (its reference and text)
DirectEvidence(objs) ==
    [i \in DOMAIN objs |->
        [evidence_id |-> 0, event_id |-> objs[i].event_id, evidence_tier |-> "direct",
         verse_of |-> objs[i].event_id, has_text |-> objs[i].has_text,
         translation |-> TRANSLATION, is_parallel |-> "false", note |-> 0]]

\* lines 479-484: the keys of gospel_groups in the order they enter the dict
RECURSIVE GroupKeysFrom(_, _)
GroupKeysFrom(objs, seen) ==
    IF objs = <<>> THEN <<>>
    ELSE LET key == normalize_heading_key(Head(objs).title)
         IN  IF Head(objs).book \in GOSPEL_BOOKS /\ key # "" /\ key \notin seen
             THEN <<key>> \o GroupKeysFrom(Tail(objs), seen \cup {key})
             ELSE GroupKeysFrom(Tail(objs), seen)

\* lines 479-484: gospel_groups[key], in event order
GroupMembers(objs, key) ==
    SelectSeq(objs, LAMBDA o :
        o.book \in GOSPEL_BOOKS /\ normalize_heading_key(o.title) = key)

\* lines 491-495: the (target, source) positions of a group in loop order;
\* only the pair of an event with itself is skipped
MemberPairs(members) ==
    SelectSeq([p \in 1..(Len(members) * Len(members)) |->
                  <<((p - 1) \div Len(members)) + 1, ((p - 1) % Len(members)) + 1>>],
              LAMBDA pr : members[pr[2]].event_id # members[pr[1]].event_id)

\* lines 486-508 for one group: nothing unless the group spans two books
GroupParallelRows(members) ==
    IF Cardinality({members[i].book : i \in DOMAIN members}) < 2 THEN <<>>
    ELSE [k \in DOMAIN MemberPairs(members) |->
             [evidence_id |-> 0,
              event_id |-> members[MemberPairs(members)[k][1]].event_id,
              evidence_tier |-> "parallel",
              verse_of |-> members[MemberPairs(members)[k][2]].event_id,
              has_text |-> members[MemberPairs(members)[k][2]].has_text,
              translation |-> TRANSLATION, is_parallel |-> "true",
              note |-> members[MemberPairs(members)[k][2]].event_id]]

\* lines 486-508: the parallel rows of the groups keys, in order
RECURSIVE ParallelEvidence(_, _)
ParallelEvidence(objs, keys) ==
    IF keys = <<>> THEN <<>>
    ELSE GroupParallelRows(GroupMembers(objs, Head(keys)))
         \o ParallelEvidence(objs, Tail(keys))

\* lines 458-509: all evidence rows; evidence_id counts from 1 in row order
AllEvidenceRows(objs) ==
    LET rows == DirectEvidence(objs) \o ParallelEvidence(objs, GroupKeysFrom(objs, {}))
    IN  [k \in DOMAIN rows |-> [rows[k] EXCEPT !.evidence_id = k]]

ChainEdgesSelfLoop(track_id, ids, edge_id) ==
    [i \in 1..(IF ids = <<>> THEN 0 ELSE Len(ids) - 1) |->
        [edge_id |-> edge_id + i - 1, from_event_id |-> ids[i],
         to_event_id |-> ids[i], track_id |-> track_id]]

\* lines 515-529 and add_track_edges (534-549): ids[i] -> ids[i+1], the edge
\* ids counting on from edge_id.
ChainEdges(track_id, ids, edge_id) ==
    [i \in 1..(IF ids = <<>> THEN 0 ELSE Len(ids) - 1) |->
        [edge_id |-> edge_id + i - 1, from_event_id |-> ids[i],
         to_event_id |-> ids[i + 1], track_id |-> track_id]]

\* the ids of the events whose lane is in lanes, in sequence order (531-532)
RECURSIVE IdsInLanes(_, _)
IdsInLanes(objs, lanes) ==
    IF objs = <<>> THEN <<>>
    ELSE (IF Head(objs).lane \in lanes THEN <<Head(objs).event_id>> ELSE <<>>)
         \o IdsInLanes(Tail(objs), lanes)

exodus_related(objs) ==
    IdsInLanes(objs, {"exodus_wilderness", "conquest_settlement", "judges_period"})

gospel_related(objs) == IdsInLanes(objs, {"life_of_jesus", "early_church"})

\* lines 511-553: all chronology rows, in the order they are appended
AllChronologyRows(objs) ==
    LET event_ids == [i \in DOMAIN objs |-> objs[i].event_id]
        main == ChainEdges("track_main", event_ids, 1)
        early == ChainEdges("track_exodus_early", exodus_related(objs), 1 + Len(main))
        late == ChainEdges("track_exodus_late", exodus_related(objs),
                           1 + Len(main) + Len(early))
        harmony == ChainEdges("track_gospel_harmony", gospel_related(objs),
                              1 + Len(main) + Len(early) + Len(late))
    IN  main \o early \o late \o harmony

\* lines 607-615: the (from, to) pairs of a track, in row order, and its nodes
RECURSIVE EdgesOfTrack(_, _)
EdgesOfTrack(rows, track_id) ==
    IF rows = <<>> THEN <<>>
    ELSE (IF Head(rows).track_id = track_id
          THEN << <<Head(rows).from_event_id, Head(rows).to_event_id>> >>
          ELSE <<>>)
         \o EdgesOfTrack(Tail(rows), track_id)

NodesOf(edges) ==
    {edges[i][1] : i \in DOMAIN edges} \cup {edges[i][2] : i \in DOMAIN edges}

InducedWithoutLoops(node_set, edges) ==
    SelectSeq(edges, LAMBDA e : e[1] \in node_set /\ e[2] \in node_set /\ e[1] # e[2])

\* lines 383-387: the edges with both ends in node_set
InducedEdges(node_set, edges) ==
    SelectSeq(edges, LAMBDA e : e[1] \in node_set /\ e[2] \in node_set)

\* lines 394-397: the inner loop over outgoing[cur]; st is [indeg, queue]
RECURSIVE Relax(_, _)
Relax(st, outs) ==
    IF outs = <<>> THEN st
    ELSE LET nxt == Head(outs)
             d == st.indeg[nxt] - 1
         IN  Relax([indeg |-> [st.indeg EXCEPT ![nxt] = d],
                    queue |-> IF d = 0 THEN Append(st.queue, nxt) ELSE st.queue],
                   Tail(outs))

\* lines 391-397: the traversal; queue.pop() takes the last element
RECURSIVE KahnVisited(_, _, _)
KahnVisited(st, induced, visited) ==
    IF st.queue = <<>> THEN visited
    ELSE LET cur == st.queue[Len(st.queue)]
             rest == [st EXCEPT !.queue = SubSeq(st.queue, 1, Len(st.queue) - 1)]
             outs == [k \in 1..Len(SelectSeq(induced, LAMBDA e : e[1] = cur)) |->
                         SelectSeq(induced, LAMBDA e : e[1] = cur)[k][2]]
         IN  KahnVisited(Relax(rest, outs), induced, visited + 1)

\* line 380 after the loop of lines 383-387: the in-degree of every node
Indegree(nodes, induced) ==
    [n \in nodes |-> Cardinality({k \in DOMAIN induced : induced[k][2] = n})]

\* line 389: the zero-indegree nodes, listed in the iteration order of a
\* Python set, which may be any order
StartQueues(nodes, edges) ==
    Arrangements({n \in nodes : Indegree(nodes, InducedEdges(nodes, edges))[n] = 0})

\* lines 390-399 from the start queue on
VisitsAll(nodes, edges, queue) ==
    KahnVisited([indeg |-> Indegree(nodes, InducedEdges(nodes, edges)), queue |-> queue],
                InducedEdges(nodes, edges), 0) = Cardinality(nodes)

\* topological_ok (lines 378-399) where the value is used by main: the count
\* of visited nodes is the same for every start queue (SpecTopo takes them
\* all), the ascending one is taken.
topological_ok(nodes, edges) ==
    VisitsAll(nodes, edges,
              Ascending({n \in nodes : Indegree(nodes, InducedEdges(nodes, edges))[n] = 0}))

\* lines 588-604: the row checks, the missing-evidence check and the
\* required-field check; the name of the first exception, or "rows_ok"
ValidateRows(objs, rows) ==
    LET bad == {k \in DOMAIN rows :
                   \/ rows[k].event_id \notin {objs[i].event_id : i \in DOMAIN objs}
                   \/ ~rows[k].has_text
                   \/ rows[k].translation # TRANSLATION}
        first == CHOOSE k \in bad : \A j \in bad : k <= j
    IN  IF bad # {}
        THEN (IF rows[first].event_id \notin {objs[i].event_id : i \in DOMAIN objs}
              THEN "unknown_event_error"
              ELSE IF ~rows[first].has_text THEN "text_error"
              ELSE "translation_error")
        ELSE IF \E i \in DOMAIN objs :
                   ~\E k \in DOMAIN rows : rows[k].event_id = objs[i].event_id
        THEN "missing_evidence_error"
        ELSE IF \E i \in DOMAIN objs : objs[i].lane = ""
        THEN "required_field_error"
        ELSE "rows_ok"

\* lines 622-751: the output files in the order they are written
OutputFiles ==
    <<"events.csv", "evidence_verses.csv", "chronology_edges.csv",
      "interpretation_tracks.csv", "research_notes.md", "infographic_mapping.md">>

InitBuild ==
    /\ \E selected \in SelectedInputs : event_objects = EventObjects(selected)
    /\ evidence_rows = <<>>
    /\ chronology_rows = <<>>
    /\ written = <<>>
    /\ build_pc = "selected"
    /\ QuotaIdle /\ CandidatesIdle /\ NormIdle /\ MatcherIdle /\ SelectIdle
    /\ PickIdle /\ TopoIdle /\ AllVersesIdle /\ LauncherIdle /\ RerunIdle

\* lines 458-509
BBuildEvidence ==
    /\ build_pc = "selected"
    /\ evidence_rows' = AllEvidenceRows(event_objects)
    /\ build_pc' = "evidence"
    /\ UNCHANGED <<event_objects, chronology_rows, written>>
    /\ UNCHANGED <<qvars, cvars, nvars, mvars, svars>>
    /\ UNCHANGED <<pvars, tvars, avars, lvars, rvars>>

\* lines 511-553
BBuildEdges ==
    /\ build_pc = "evidence"
    /\ chronology_rows' = AllChronologyRows(event_objects)
    /\ build_pc' = "edges"
    /\ UNCHANGED <<event_objects, evidence_rows, written>>
    /\ UNCHANGED <<qvars, cvars, nvars, mvars, svars>>
    /\ UNCHANGED <<pvars, tvars, avars, lvars, rvars>>

\* lines 586-604: a failure raises
BValidateRows ==
    /\ build_pc = "edges"
    /\ build_pc' = ValidateRows(event_objects, evidence_rows)
    /\ UNCHANGED <<event_objects, evidence_rows, chronology_rows, written>>
    /\ UNCHANGED <<qvars, cvars, nvars, mvars, svars>>
    /\ UNCHANGED <<pvars, tvars, avars, lvars, rvars>>

\* lines 607-619: every track that has a row is validated; a failure raises
BValidateTracks ==
    /\ build_pc = "rows_ok"
    /\ build_pc' =
          IF \A t \in {chronology_rows[i].track_id : i \in DOMAIN chronology_rows} :
                 topological_ok(NodesOf(EdgesOfTrack(chronology_rows, t)),
                                EdgesOfTrack(chronology_rows, t))
          THEN "validated" ELSE "dag_error"
    /\ UNCHANGED <<event_objects, evidence_rows, chronology_rows, written>>
    /\ UNCHANGED <<qvars, cvars, nvars, mvars, svars>>
    /\ UNCHANGED <<pvars, tvars, avars, lvars, rvars>>

BMayWriteUnchecked == build_pc \in {"edges", "rows_ok", "validated"}

\* the first write_csv (line 622) is reached only when no check has raised
BMayWrite == build_pc = "validated"

\* lines 622-751: the next output file is written
BWriteFile ==
    /\ BMayWrite
    /\ Len(written) < Len(OutputFiles)
    /\ written' = Append(written, OutputFiles[Len(written) + 1])
    /\ build_pc' = IF Len(written) + 1 = Len(OutputFiles) THEN "done" ELSE build_pc
    /\ UNCHANGED <<event_objects, evidence_rows, chronology_rows>>
    /\ UNCHANGED <<qvars, cvars, nvars, mvars, svars>>
    /\ UNCHANGED <<pvars, tvars, avars, lvars, rvars>>

NextBuild ==
    \/ BBuildEvidence
    \/ BBuildEdges
    \/ BValidateRows
    \/ BValidateTracks
    \/ BWriteFile

SpecBuild == InitBuild /\ [][NextBuild]_vars

\* The nodes reachable from the nodes of S in one or more steps of the edge
\* pairs E, found by adding successors k times.
RECURSIVE ReachIn(_, _, _)
ReachIn(E, S, k) ==
    IF k = 0 THEN S
    ELSE ReachIn(E, S \cup {e[2] : e \in {f \in E : f[1] \in S}}, k - 1)

OnCycle(E, n) ==
    n \in ReachIn(E, {e[2] : e \in {f \in E : f[1] = n}}, Cardinality(E))

\* The edge pairs E have a directed cycle.
HasCycle(E) == \E e \in E : OnCycle(E, e[1])

TrackPairs(rows, t) ==
    {<<rows[i].from_event_id, rows[i].to_event_id>> :
        i \in {k \in DOMAIN rows : rows[k].track_id = t}}

\* topological_ok on any node set and edge list over three node names: an
\* edge list may repeat an edge, hold a self-loop, and name a node that is
\* not in the node set.
TopoNodeNames == {1, 2, 3}

InitTopo ==
    /\ tp_nodes \in SUBSET TopoNodeNames
    /\ tp_edges \in UNION {[1..n -> TopoNodeNames \X TopoNodeNames] : n \in 0..MaxTopoEdges}
    /\ tp_result = FALSE
    /\ tp_pc = "start"
    /\ QuotaIdle /\ CandidatesIdle /\ BuildIdle /\ NormIdle /\ MatcherIdle /\ SelectIdle
    /\ PickIdle /\ AllVersesIdle /\ LauncherIdle /\ RerunIdle

\* topological_ok (lines 378-399), called and returned
TCheck ==
    /\ tp_pc = "start"
    /\ \E queue \in StartQueues(tp_nodes, tp_edges) :
          tp_result' = VisitsAll(tp_nodes, tp_edges, queue)
    /\ tp_pc' = "done"
    /\ UNCHANGED <<tp_nodes, tp_edges>>
    /\ UNCHANGED <<qvars, cvars, bvars, nvars, mvars, svars, pvars, avars, lvars, rvars>>

NextTopo ==
    \/ TCheck

SpecTopo == InitTopo /\ [][NextTopo]_vars

\* The distinct edges of the list with both ends in the node set.
InducedPairs ==
    {e \in {tp_edges[k] : k \in DOMAIN tp_edges} : e[1] \in tp_nodes /\ e[2] \in tp_nodes}

\* C26: topological_ok returns true exactly when the graph induced on the
\* node set has no directed cycle, whatever self-loops, repeated edges and
\* edges with an end outside the node set the list holds.
TopologicalOkIffAcyclic ==
    tp_pc = "done" => (tp_result <=> ~HasCycle(InducedPairs))

\* a repeated edge and an edge that leaves the node set, and no cycle
TopologicalOkIffAcyclicWitness ==
    /\ tp_pc = "done" /\ tp_result
    /\ tp_nodes = {1, 2}
    /\ tp_edges = << <<1, 2>>, <<1, 2>>, <<2, 3>> >>

\* C10: in a fresh build the edges of every track are acyclic over the track's
\* events, and the per-track DAG validation never fails.
FreshTracksAcyclic ==
    /\ build_pc # "dag_error"
    /\ build_pc \notin {"selected", "evidence"} =>
          \A t \in TrackIds : ~HasCycle(TrackPairs(chronology_rows, t))

FreshTracksAcyclicWitness ==
    /\ build_pc = "validated"
    /\ Cardinality(TrackPairs(chronology_rows, "track_main")) >= 3
    /\ TrackPairs(chronology_rows, "track_exodus_late") # {}
    /\ TrackPairs(chronology_rows, "track_gospel_harmony") # {}

\* C20: in the exact-heading parallel pass, the parallel rows of a target
\* event cite only events of another book than the target's: two selected
\* events of one book are never linked as parallel accounts.
ParallelOnlyAcrossBooks ==
    \A k \in DOMAIN evidence_rows :
        evidence_rows[k].evidence_tier = "parallel" =>
            event_objects[evidence_rows[k].event_id].book
                # event_objects[evidence_rows[k].note].book

-----------------------------------------------------------------------------
(* build_from_research of build_web_data.py: the snapshot normalizer.       *)
(* A snapshot is a record [events, evidence, edges] of CSV rows; every      *)
(* field is the string read from the file.                                  *)

\* str.strip() on the field values the model uses
Strip(v) ==
    CASE v = " E1" -> "E1"
      [] v = " Parallel" -> "Parallel"
      [] v = " low" -> "low"
      [] v = " KRV" -> "KRV"
      [] OTHER -> v

\* str.lower() on the field values the model uses
Lower(v) ==
    CASE v = "Parallel" -> "parallel"
      [] OTHER -> v

\* CERTAINTY_SET (line 25)
CERTAINTY_SET == {"high", "medium", "low", "disputed"}

\* LANE_DEFS (lines 27-40): ids in catalog order
LANE_DEFS ==
    <<"primeval_history", "patriarchal_era", "exodus_wilderness",
      "conquest_settlement", "judges_period", "united_monarchy", "monarchy_exile",
      "wisdom_poetry", "prophetic_books", "exile_return", "life_of_jesus",
      "early_church">>

NormError(why) == [status |-> "error", error |-> why]

\* stable insertion of row r into rows sorted by int(sequence_index)
RECURSIVE InsertBySequence(_, _)
InsertBySequence(sorted, r) ==
    IF sorted = <<>> THEN <<r>>
    ELSE IF r.sequence_index < sorted[Len(sorted)].sequence_index
         THEN Append(InsertBySequence(SubSeq(sorted, 1, Len(sorted) - 1), r),
                     sorted[Len(sorted)])
         ELSE Append(sorted, r)

KeepFileOrder(rows) == rows

\* line 191: events.sort(key=int(sequence_index)), a stable sort
RECURSIVE SortBySequence(_)
SortBySequence(rows) ==
    IF rows = <<>> THEN <<>>
    ELSE InsertBySequence(SortBySequence(SubSeq(rows, 1, Len(rows) - 1)),
                          rows[Len(rows)])

NoRepeatedEventId(rows) == FALSE

\* lines 170-173: some row's stripped event_id is already in seen_ids
RepeatedEventId(rows) ==
    \E i, j \in DOMAIN rows : i < j /\ Strip(rows[i].event_id) = Strip(rows[j].event_id)

CertaintyAsGiven(v) == Strip(v)

\* lines 175-177: the certainty_level that is emitted for the field value v
Certainty(v) == IF Strip(v) \in CERTAINTY_SET THEN Strip(v) ELSE "medium"

\* normalize_events (lines 165-192): a repeated event_id raises; an unknown
\* certainty_level becomes medium; the result is sorted by sequence_index.
normalize_events(rows) ==
    IF RepeatedEventId(rows)
    THEN NormError("duplicate_event_id")
    ELSE [status |-> "ok",
          events |-> SortBySequence(
              [i \in DOMAIN rows |->
                  [event_id |-> Strip(rows[i].event_id),
                   lane_tag |-> Strip(rows[i].lane_tag),
                   sequence_index |-> rows[i].sequence_index,
                   book |-> Strip(rows[i].book),
                   certainty_level |-> Certainty(rows[i].certainty_level)]])]

\* lines 208-221: the bucket a row is appended to
BucketOf(row) ==
    IF Lower(Strip(row.evidence_tier)) = "parallel" THEN "parallel" ELSE "direct"

\* lines 212-219: the entry appended for a row
EvidenceEntry(row) ==
    IF BucketOf(row) = "parallel"
    THEN [reference |-> Strip(row.reference), verse_text_kr |-> Strip(row.verse_text_kr),
          note |-> Strip(row.note)]
    ELSE [reference |-> Strip(row.reference), verse_text_kr |-> Strip(row.verse_text_kr)]

\* the entries of event eid in bucket, in row order
RECURSIVE BucketEntries(_, _, _)
BucketEntries(rows, eid, bucket) ==
    IF rows = <<>> THEN <<>>
    ELSE (IF Strip(Head(rows).event_id) = eid /\ BucketOf(Head(rows)) = bucket
          THEN <<EvidenceEntry(Head(rows))>> ELSE <<>>)
         \o BucketEntries(Tail(rows), eid, bucket)

FirstTranslationOnly(rows) ==
    IF rows = <<>> THEN {} ELSE {Strip(rows[1].translation)}

\* lines 201 and 209-210: translation_set after the row loop
TranslationSet(rows) == {Strip(rows[i].translation) : i \in DOMAIN rows}

\* normalize_evidence (lines 195-235).  The row loop raises at the first row
\* of an unknown event; then the translation check; then the direct check.
normalize_evidence(rows, event_ids) ==
    IF \E i \in DOMAIN rows : Strip(rows[i].event_id) \notin event_ids
    THEN NormError("unknown_event_id")
    ELSE IF Cardinality(TranslationSet(rows)) # 1
    THEN NormError("translation_not_single")
    ELSE LET evidence_by_event ==
                 [eid \in event_ids |->
                     [direct |-> BucketEntries(rows, eid, "direct"),
                      parallel |-> BucketEntries(rows, eid, "parallel")]]
         IN  IF \E eid \in event_ids : evidence_by_event[eid].direct = <<>>
             THEN NormError("direct_missing")
             ELSE [status |-> "ok",
                   evidence_by_event |-> evidence_by_event,
                   translation |-> CHOOSE t \in TranslationSet(rows) : TRUE,
                   total_evidence |-> Len(rows)]

\* the edges of one track, in row order (lines 249-259)
RECURSIVE TrackEdges(_, _)
TrackEdges(rows, track_id) ==
    IF rows = <<>> THEN <<>>
    ELSE (IF Strip(Head(rows).track_id) = track_id
          THEN <<[from_event_id |-> Strip(Head(rows).from_event_id),
                  to_event_id |-> Strip(Head(rows).to_event_id),
                  relation_type |-> "before"]>>
          ELSE <<>>)
         \o TrackEdges(Tail(rows), track_id)

NoUnknownEndpoint(row, event_ids) == FALSE

\* lines 244-246: frm not in event_ids or to not in event_ids
UnknownEndpoint(row, event_ids) ==
    \/ Strip(row.from_event_id) \notin event_ids
    \/ Strip(row.to_event_id) \notin event_ids

\* normalize_edges (lines 238-261): an unknown endpoint raises; nothing else
\* is checked.
normalize_edges(rows, event_ids) ==
    IF \E i \in DOMAIN rows : UnknownEndpoint(rows[i], event_ids)
    THEN NormError("unknown_edge_endpoint")
    ELSE [status |-> "ok",
          by_track |-> [t \in {Strip(rows[i].track_id) : i \in DOMAIN rows} |->
                            TrackEdges(rows, t)]]

LanesInEventOrder(evts) ==
    LET tags == [i \in DOMAIN evts |-> evts[i].lane_tag]
    IN  SelectSeq([i \in DOMAIN tags |->
                      IF \A j \in 1..(i - 1) : tags[j] # tags[i] THEN tags[i] ELSE ""],
                  LAMBDA t : \E k \in DOMAIN LANE_DEFS : LANE_DEFS[k] = t)

\* normalize_lanes (lines 149-157)
normalize_lanes(evts) ==
    SelectSeq(LANE_DEFS, LAMBDA lane_id : \E i \in DOMAIN evts : evts[i].lane_tag = lane_id)

\* build_from_research (lines 264-286); an exception of a step ends the run.
build_from_research(snap) ==
    LET evs == normalize_events(snap.events)
    IN  IF evs.status = "error" THEN evs
        ELSE LET event_ids == {evs.events[i].event_id : i \in DOMAIN evs.events}
                 evd == normalize_evidence(snap.evidence, event_ids)
             IN  IF evd.status = "error" THEN evd
                 ELSE LET edg == normalize_edges(snap.edges, event_ids)
                      IN  IF edg.status = "error" THEN edg
                          ELSE [status |-> "ok",
                                meta |-> [translation |-> evd.translation,
                                          totalEvents |-> Len(evs.events),
                                          totalEvidence |-> evd.total_evidence,
                                          mode |-> "research"],
                                lanes |-> normalize_lanes(evs.events),
                                events |-> evs.events,
                                evidenceByEvent |-> evd.evidence_by_event,
                                edgesByTrack |-> edg.by_track]

\* The event rows the snapshots are drawn from.
EventRowPool ==
    {[event_id |-> "E1", lane_tag |-> "primeval_history", sequence_index |-> 1,
      book |-> "Genesis", certainty_level |-> "high"],
     [event_id |-> "E2", lane_tag |-> "life_of_jesus", sequence_index |-> 2,
      book |-> "Matthew", certainty_level |-> "unsure"],
     [event_id |-> " E1", lane_tag |-> "early_church", sequence_index |-> 3,
      book |-> "Acts", certainty_level |-> " low"]}

EventRowInputs == UNION {[1..n -> EventRowPool] : n \in 1..2}

EvidenceRowPool ==
    [event_id : {"E1", " E1", "E2", "E9"},
     evidence_tier : {"direct", " Parallel", "indirect"},
     reference : {"Genesis 1:1"}, verse_text_kr : {"text"},
     translation : {"KRV", " KRV", "NIV"}, note : {"parallel_from:E2"}]

\* The reference of the k-th evidence row: every row cites its own verse.
ReferenceAt(k) ==
    CASE k = 1 -> "Genesis 1:1"
      [] k = 2 -> "Genesis 1:2"
      [] k = 3 -> "Genesis 1:3"
      [] OTHER -> "Genesis 1:4"

EvidenceRowInputs ==
    {[k \in DOMAIN rows |-> [rows[k] EXCEPT !.reference = ReferenceAt(k)]] :
        rows \in UNION {[1..n -> EvidenceRowPool] : n \in 0..MaxEvidenceRows}}

EdgeRowPool ==
    [from_event_id : {"E1", "E2", "E9"}, to_event_id : {"E1", "E2", "E9"},
     relation_type : {"before"}, track_id : {"track_main", "track_alt"}]

EdgeRowInputs == UNION {[1..n -> EdgeRowPool] : n \in 0..MaxEdgeRows}

\* One direct row per event row, as a fresh build writes them.
DirectRowsFor(event_rows) ==
    [i \in DOMAIN event_rows |->
        [event_id |-> event_rows[i].event_id, evidence_tier |-> "direct",
         reference |-> ReferenceAt(i), verse_text_kr |-> "text",
         translation |-> "KRV", note |-> ""]]

\* The edge table of a fresh build of E1 and E2: the main chain E1 -> E2.
MainChainRows ==
    <<[from_event_id |-> "E1", to_event_id |-> "E2",
       relation_type |-> "before", track_id |-> "track_main"]>>

\* Event rows whose file order and sequence order differ from the catalog
\* order of their lanes, one of them with the lane tag the extractor gives
\* to Jonah.
LaneRowPool ==
    {[event_id |-> "E1", lane_tag |-> "life_of_jesus", sequence_index |-> 1,
      book |-> "Matthew", certainty_level |-> "high"],
     [event_id |-> "E2", lane_tag |-> "primeval_history", sequence_index |-> 2,
      book |-> "Genesis", certainty_level |-> "high"],
     [event_id |-> "E3", lane_tag |-> "prophetic_mission", sequence_index |-> 3,
      book |-> "Jonah", certainty_level |-> "high"],
     [event_id |-> "E4", lane_tag |-> "life_of_jesus", sequence_index |-> 4,
      book |-> "Mark", certainty_level |-> "high"]}

LaneRowInputs == UNION {[1..n -> LaneRowPool] : n \in 1..3}

\* The snapshots: any evidence table with no edge or the main chain, any
\* edge table with the evidence a fresh build writes, and the event rows of
\* LaneRowInputs with that evidence and no edge.
InitNorm ==
    /\ \/ \E ev \in EventRowInputs :
             \/ \E rows \in EvidenceRowInputs, ed \in {<<>>, MainChainRows} :
                   snapshot = [events |-> ev, evidence |-> rows, edges |-> ed]
             \/ \E ed \in EdgeRowInputs :
                   snapshot = [events |-> ev, evidence |-> DirectRowsFor(ev),
                               edges |-> ed]
       \/ \E ev \in LaneRowInputs :
             snapshot = [events |-> ev, evidence |-> DirectRowsFor(ev), edges |-> <<>>]
    /\ payload = [status |-> "none"]
    /\ output = [status |-> "none"]
    /\ norm_pc = "start"
    /\ QuotaIdle /\ CandidatesIdle /\ BuildIdle /\ MatcherIdle /\ SelectIdle
    /\ PickIdle /\ TopoIdle /\ AllVersesIdle /\ LauncherIdle /\ RerunIdle

\* main in research mode (lines 459-464): the payload is built, or the run
\* ends with the exception and no payload.
NNormalize ==
    /\ norm_pc = "start"
    /\ payload' = build_from_research(snapshot)
    /\ norm_pc' = "done"
    /\ UNCHANGED <<snapshot, output>>
    /\ UNCHANGED <<qvars, cvars, bvars, mvars, svars>>
    /\ UNCHANGED <<pvars, tvars, avars, lvars, rvars>>

\* main reaches line 470 only when build_from_research returned
NMayWrite == norm_pc = "done" /\ payload.status = "ok"

\* main (lines 470-475): the payload is serialised into the output file
NWrite ==
    /\ NMayWrite
    /\ output' = payload
    /\ norm_pc' = "written"
    /\ UNCHANGED <<snapshot, payload>>
    /\ UNCHANGED <<qvars, cvars, bvars, mvars, svars>>
    /\ UNCHANGED <<pvars, tvars, avars, lvars, rvars>>

NextNorm ==
    \/ NNormalize
    \/ NWrite

SpecNorm == InitNorm /\ [][NextNorm]_vars

SnapshotTracks == {Strip(snapshot.edges[i].track_id) : i \in DOMAIN snapshot.edges}

SnapshotEventIds == {Strip(snapshot.events[i].event_id) : i \in DOMAIN snapshot.events}

\* C5: normalizing a snapshot fails, and gives no payload, whenever the edges
\* sharing some track_id contain a directed cycle.
NormFailsOnCycle ==
    (norm_pc = "done" /\
     \E t \in SnapshotTracks : HasCycle(TrackPairs(snapshot.edges, t)))
        => payload.status = "error"

\* C6: normalizing a snapshot fails whenever some event has no evidence row
\* whose evidence_tier is direct.
NormFailsWithoutDirect ==
    (norm_pc = "done" /\
     \E eid \in SnapshotEventIds :
        ~\E i \in DOMAIN snapshot.evidence :
            /\ Strip(snapshot.evidence[i].event_id) = eid
            /\ Lower(Strip(snapshot.evidence[i].evidence_tier)) = "direct")
        => payload.status = "error"

\* The rows of the snapshot's evidence table of event eid whose tier is tier,
\* in row order.
SnapshotRowsOf(eid, tier) ==
    SelectSeq(snapshot.evidence,
              LAMBDA r : Strip(r.event_id) = eid /\ Lower(Strip(r.evidence_tier)) = tier)

ReferencesOf(rows) == [k \in DOMAIN rows |-> Strip(rows[k].reference)]

\* The snapshot was accepted and every evidence tier is direct or parallel.
ValidSnapshot ==
    /\ norm_pc \in {"done", "written"} /\ payload.status = "ok"
    /\ \A i \in DOMAIN snapshot.evidence :
          Lower(Strip(snapshot.evidence[i].evidence_tier)) \in {"direct", "parallel"}

\* C11: normalizing a valid snapshot gives exactly the snapshot's events in
\* ascending sequence_index order, and evidenceByEvent maps every event to
\* exactly its evidence rows, split by tier and in row order; totalEvidence
\* is the number of evidence rows.
NormKeepsEventsAndEvidence ==
    ValidSnapshot =>
        /\ Len(payload.events) = Len(snapshot.events)
        /\ \A i \in DOMAIN snapshot.events :
              \E k \in DOMAIN payload.events :
                 /\ payload.events[k].event_id = Strip(snapshot.events[i].event_id)
                 /\ payload.events[k].sequence_index = snapshot.events[i].sequence_index
                 /\ payload.events[k].book = Strip(snapshot.events[i].book)
                 /\ payload.events[k].lane_tag = Strip(snapshot.events[i].lane_tag)
        /\ \A i, j \in DOMAIN payload.events :
              i < j => payload.events[i].sequence_index <= payload.events[j].sequence_index
        /\ DOMAIN payload.evidenceByEvent = SnapshotEventIds
        /\ \A eid \in SnapshotEventIds :
              /\ ReferencesOf(payload.evidenceByEvent[eid].direct)
                    = ReferencesOf(SnapshotRowsOf(eid, "direct"))
              /\ ReferencesOf(payload.evidenceByEvent[eid].parallel)
                    = ReferencesOf(SnapshotRowsOf(eid, "parallel"))
        /\ payload.meta.totalEvidence = Len(snapshot.evidence)
        /\ payload.meta.totalEvents = Len(snapshot.events)

NormKeepsEventsAndEvidenceWitness ==
    /\ ValidSnapshot
    /\ Len(snapshot.events) = 2 /\ Len(snapshot.evidence) = 2
    /\ snapshot.events[1].sequence_index > snapshot.events[2].sequence_index
    /\ Strip(snapshot.evidence[1].event_id) = Strip(snapshot.events[1].event_id)

\* C12: normalization fails whenever an evidence row's event_id or an
\* endpoint of an edge is not the (stripped) event_id of an event of the
\* snapshot, and a payload never holds a reference to an unknown event.
NormRejectsDanglingReference ==
    norm_pc \in {"done", "written"} =>
        /\ (\/ \E i \in DOMAIN snapshot.evidence :
                  Strip(snapshot.evidence[i].event_id) \notin SnapshotEventIds
            \/ \E i \in DOMAIN snapshot.edges :
                  \/ Strip(snapshot.edges[i].from_event_id) \notin SnapshotEventIds
                  \/ Strip(snapshot.edges[i].to_event_id) \notin SnapshotEventIds)
              => payload.status = "error"
        /\ payload.status = "ok" =>
              /\ DOMAIN payload.evidenceByEvent
                    \subseteq {payload.events[k].event_id : k \in DOMAIN payload.events}
              /\ \A t \in DOMAIN payload.edgesByTrack :
                    \A k \in DOMAIN payload.edgesByTrack[t] :
                       {payload.edgesByTrack[t][k].from_event_id,
                        payload.edgesByTrack[t][k].to_event_id}
                          \subseteq {payload.events[n].event_id : n \in DOMAIN payload.events}

NormRejectsDanglingReferenceWitness ==
    /\ norm_pc = "done" /\ payload.status = "error"
    /\ payload.error = "unknown_edge_endpoint"
    /\ \A i \in DOMAIN snapshot.edges : snapshot.edges[i].from_event_id \in SnapshotEventIds

\* C13: normalization fails whenever the evidence rows carry more than one
\* distinct (stripped) translation label, and on success meta.translation is
\* the label of every evidence row.
NormSingleTranslation ==
    norm_pc \in {"done", "written"} =>
        /\ Cardinality({Strip(snapshot.evidence[i].translation) :
                           i \in DOMAIN snapshot.evidence}) > 1
              => payload.status = "error"
        /\ payload.status = "ok" =>
              \A i \in DOMAIN snapshot.evidence :
                 Strip(snapshot.evidence[i].translation) = payload.meta.translation

NormSingleTranslationWitness ==
    /\ norm_pc = "done" /\ payload.status = "error"
    /\ payload.error = "translation_not_single"
    /\ Len(snapshot.evidence) = 2
    /\ snapshot.evidence[1].translation = "KRV"

\* C14: normalization fails on every snapshot in which two event rows have
\* the same event_id, so the event_ids of a payload are pairwise distinct.
NormRejectsDuplicateEvent ==
    norm_pc \in {"done", "written"} =>
        /\ (\E i, j \in DOMAIN snapshot.events :
               i # j /\ Strip(snapshot.events[i].event_id) = Strip(snapshot.events[j].event_id))
              => payload.status = "error"
        /\ payload.status = "ok" =>
              \A i, j \in DOMAIN payload.events :
                 i # j => payload.events[i].event_id # payload.events[j].event_id

NormRejectsDuplicateEventWitness ==
    /\ norm_pc = "done" /\ payload.status = "error"
    /\ payload.error = "duplicate_event_id"
    /\ snapshot.events[1].event_id # snapshot.events[2].event_id

\* The snapshot with every certainty_level replaced by a value of the set.
WithKnownCertainty(snap) ==
    [snap EXCEPT !.events =
        [i \in DOMAIN snap.events |-> [snap.events[i] EXCEPT !.certainty_level = "high"]]]

\* C15: a certainty_level outside {high, medium, low, disputed} never makes
\* normalization fail (the run fails only if it fails with the value
\* replaced by a known one); it is emitted as medium, and a value of the
\* set is emitted unchanged.
NormDefaultsCertainty ==
    norm_pc \in {"done", "written"} =>
        /\ payload.status = build_from_research(WithKnownCertainty(snapshot)).status
        /\ payload.status = "ok" =>
              \A i \in DOMAIN snapshot.events :
                 \E k \in DOMAIN payload.events :
                    /\ payload.events[k].event_id = Strip(snapshot.events[i].event_id)
                    /\ payload.events[k].certainty_level =
                          IF Strip(snapshot.events[i].certainty_level)
                                \in {"high", "medium", "low", "disputed"}
                          THEN Strip(snapshot.events[i].certainty_level)
                          ELSE "medium"

NormDefaultsCertaintyWitness ==
    /\ norm_pc = "done" /\ payload.status = "ok"
    /\ \E i \in DOMAIN snapshot.events : snapshot.events[i].certainty_level = "unsure"
    /\ \E k \in DOMAIN payload.events : payload.events[k].certainty_level = "medium"
    /\ \E k \in DOMAIN payload.events : payload.events[k].certainty_level = "high"

\* The position of a lane id in the catalog, 0 when it is not in it.
CatalogPosition(lane_id) ==
    IF \E k \in DOMAIN LANE_DEFS : LANE_DEFS[k] = lane_id
    THEN CHOOSE k \in DOMAIN LANE_DEFS : LANE_DEFS[k] = lane_id
    ELSE 0

\* C21: the lanes of a payload are exactly the catalog lanes that are the
\* lane_tag of at least one event of the payload, in the order of the
\* catalog, each lane once.
LanesAreUsedCatalogLanes ==
    (norm_pc # "start" /\ payload.status = "ok") =>
        /\ {payload.lanes[k] : k \in DOMAIN payload.lanes}
              = {LANE_DEFS[k] : k \in DOMAIN LANE_DEFS}
                  \cap {payload.events[i].lane_tag : i \in DOMAIN payload.events}
        /\ \A i, j \in DOMAIN payload.lanes :
              i < j => /\ CatalogPosition(payload.lanes[i]) > 0
                       /\ CatalogPosition(payload.lanes[i])
                              < CatalogPosition(payload.lanes[j])

LanesAreUsedCatalogLanesWitness ==
    /\ norm_pc = "written" /\ output.status = "ok"
    /\ Len(output.events) = 3
    /\ output.events[1].lane_tag = "life_of_jesus"
    /\ output.events[2].lane_tag = "primeval_history"
    /\ output.events[3].lane_tag = "prophetic_mission"
    /\ output.lanes = <<"primeval_history", "life_of_jesus">>

-----------------------------------------------------------------------------
(* build_from_all_verses of build_web_data.py (lines 289-404): the          *)
(* whole-corpus mode.  A book file is [book, lines], lines being its verse  *)
(* lines [chapter, verse] in file order; the text of a verse is stood for   *)
(* by the verse.  The files of the model are the first two of the sorted    *)
(* list of line 303; the 66-file check of line 304 has passed.              *)

\* lane_for (lines 89-110), book names romanised
lane_for(book_name, chapter) ==
    IF book_name = "Genesis"
    THEN (IF chapter <= 11 THEN "primeval_history" ELSE "patriarchal_era")
    ELSE IF book_name \in {"Exodus", "Leviticus", "Numbers", "Deuteronomy"}
         THEN "exodus_wilderness"
    ELSE IF book_name = "Joshua" THEN "conquest_settlement"
    ELSE IF book_name \in {"Judges", "Ruth"} THEN "judges_period"
    ELSE IF book_name \in {"Samuel1", "Samuel2"} THEN "united_monarchy"
    ELSE IF book_name \in {"Kings1", "Kings2", "Chronicles1", "Chronicles2"}
         THEN "monarchy_exile"
    ELSE IF book_name \in {"Job", "Psalms", "Proverbs", "Ecclesiastes", "Songs"}
         THEN "wisdom_poetry"
    ELSE IF book_name \in {"Isaiah", "Jeremiah", "Lamentations", "Ezekiel", "Daniel",
                           "Hosea", "Joel", "Amos", "Obadiah", "Jonah", "Micah",
                           "Nahum", "Habakkuk", "Zephaniah", "Haggai", "Zechariah",
                           "Malachi"}
         THEN "prophetic_books"
    ELSE IF book_name \in {"Ezra", "Nehemiah", "Esther"} THEN "exile_return"
    ELSE IF book_name \in {"Matthew", "Mark", "Luke", "John"} THEN "life_of_jesus"
    ELSE "early_church"

\* flush_chapter (lines 315-348) on st = [chapters, edges]; seq is the number
\* of chapters so far, prev_chapter_id the id of the last one
flush_chapter(st, book_name, chapter, verses) ==
    IF verses = <<>> THEN st
    ELSE LET seq == Len(st.chapters) + 1
         IN  [chapters |->
                 Append(st.chapters,
                        [chapter_id |-> seq, lane_tag |-> lane_for(book_name, chapter),
                         sequence_index |-> seq, book |-> book_name,
                         chapter |-> chapter, event_summary |-> verses[1],
                         verse_count |-> Len(verses), verses |-> verses]),
              edges |->
                 IF st.chapters = <<>> THEN st.edges
                 ELSE Append(st.edges, [from_chapter_id |-> seq - 1,
                                        to_chapter_id |-> seq,
                                        relation_type |-> "before"])]

\* lines 355-385: the verse lines of one file from position k on, with
\* current_chapter (0 for None) and current_verses
RECURSIVE ReadLines(_, _, _, _, _, _)
ReadLines(st, book_name, lines, k, current_chapter, current_verses) ==
    IF k > Len(lines)
    THEN [st |-> st, current_chapter |-> current_chapter,
          current_verses |-> current_verses]
    ELSE IF current_chapter = 0 \/ lines[k].chapter = current_chapter
    THEN ReadLines(st, book_name, lines, k + 1, lines[k].chapter,
                   Append(current_verses, lines[k]))
    ELSE ReadLines(flush_chapter(st, book_name, current_chapter, current_verses),
                   book_name, lines, k + 1, lines[k].chapter, <<lines[k]>>)

\* lines 350-388: one file
ReadFile(st, file) ==
    LET read == ReadLines(st, file.book, file.lines, 1, 0, <<>>)
    IN  IF read.current_chapter # 0
        THEN flush_chapter(read.st, file.book, read.current_chapter, read.current_verses)
        ELSE read.st

\* The verse lines a file can hold, in any order and with repeats.
VerseLines == [chapter : {1, 2}, verse : {1, 2}]

InitAllVerses ==
    /\ \E first \in UNION {[1..n -> VerseLines] : n \in 0..MaxLines},
          second \in UNION {[1..n -> VerseLines] : n \in 0..1} :
          av_files = <<[book |-> "Genesis", lines |-> first],
                       [book |-> "Exodus", lines |-> second]>>
    /\ av_chapters = <<>>
    /\ av_edges = <<>>
    /\ av_payload = <<>>
    /\ av_pc = [at |-> "read", file |-> 1]
    /\ QuotaIdle /\ CandidatesIdle /\ BuildIdle /\ NormIdle /\ MatcherIdle /\ SelectIdle
    /\ PickIdle /\ TopoIdle /\ LauncherIdle /\ RerunIdle

\* lines 350-388: the next file is read
AReadFile ==
    /\ av_pc.at = "read" /\ av_pc.file <= Len(av_files)
    /\ \E st \in {ReadFile([chapters |-> av_chapters, edges |-> av_edges],
                           av_files[av_pc.file])} :
          av_chapters' = st.chapters /\ av_edges' = st.edges
    /\ av_pc' = [av_pc EXCEPT !.file = @ + 1]
    /\ UNCHANGED <<av_files, av_payload>>
    /\ UNCHANGED <<qvars, cvars, bvars, nvars, mvars, svars, pvars, tvars, lvars, rvars>>

\* lines 390-404; total_verses counts the verse lines read (line 385)
AReturn ==
    /\ av_pc.at = "read" /\ av_pc.file > Len(av_files)
    /\ av_payload' =
          [meta |-> [mode |-> "all_verses", totalChapters |-> Len(av_chapters),
                     totalVerses |-> SumSeq([f \in DOMAIN av_files |->
                                                Len(av_files[f].lines)])],
           lanes |-> normalize_lanes(av_chapters),
           chapters |-> [k \in DOMAIN av_chapters |->
                            [chapter_id |-> av_chapters[k].chapter_id,
                             lane_tag |-> av_chapters[k].lane_tag,
                             sequence_index |-> av_chapters[k].sequence_index,
                             book |-> av_chapters[k].book,
                             chapter |-> av_chapters[k].chapter,
                             event_summary |-> av_chapters[k].event_summary,
                             verse_count |-> av_chapters[k].verse_count]],
           versesByChapter |-> [k \in DOMAIN av_chapters |-> av_chapters[k].verses],
           edgesByTrack |-> av_edges]
    /\ av_pc' = [av_pc EXCEPT !.at = "done"]
    /\ UNCHANGED <<av_files, av_chapters, av_edges>>
    /\ UNCHANGED <<qvars, cvars, bvars, nvars, mvars, svars, pvars, tvars, lvars, rvars>>

NextAllVerses ==
    \/ AReadFile
    \/ AReturn

SpecAllVerses == InitAllVerses /\ [][NextAllVerses]_vars

\* The verse lines of chapter c of a file, in file order.
LinesOfChapter(file, c) == SelectSeq(file.lines, LAMBDA l : l.chapter = c)

\* C27: whatever the order of the verse lines of a file, the payload has
\* exactly one chapter entry per (book, chapter) that has a verse, it holds
\* all verses of that chapter, and its summary is the chapter's first verse.
OneEntryPerChapter ==
    av_pc.at = "done" =>
        /\ \A f \in DOMAIN av_files :
              \A c \in {av_files[f].lines[k].chapter : k \in DOMAIN av_files[f].lines} :
                  /\ Cardinality({k \in DOMAIN av_payload.chapters :
                                     /\ av_payload.chapters[k].book = av_files[f].book
                                     /\ av_payload.chapters[k].chapter = c}) = 1
                  /\ \A k \in DOMAIN av_payload.chapters :
                        (/\ av_payload.chapters[k].book = av_files[f].book
                         /\ av_payload.chapters[k].chapter = c)
                        => /\ av_payload.versesByChapter[k]
                                 = LinesOfChapter(av_files[f], c)
                           /\ av_payload.chapters[k].event_summary
                                 = LinesOfChapter(av_files[f], c)[1]
        /\ \A k \in DOMAIN av_payload.chapters :
              \E f \in DOMAIN av_files :
                  /\ av_payload.chapters[k].book = av_files[f].book
                  /\ LinesOfChapter(av_files[f], av_payload.chapters[k].chapter) # <<>>

-----------------------------------------------------------------------------
(* TimelineLauncher of launcher_gui.py.  The handlers are Tk callbacks; Tk  *)
(* runs them one after another on the main thread (a handler blocks the     *)
(* event loop while it sleeps, waits for a subprocess or shows a dialog),   *)
(* so each handler is one step.  A server process is [state, port], running *)
(* or exited; it may exit on its own at any time.  The status texts are     *)
(* given English names.                                                     *)

\* The values of the port spinbox; _safe_port (lines 121-129) returns a
\* value in range as it is.
Ports == {8080, 8081}

ServerNeverRunning == FALSE

\* lines 222 and 267: self.server_process and self.server_process.poll() is None
ServerRunning == server_process # 0 /\ procs[server_process].state = "running"

\* _is_port_open (lines 207-210): something accepts connections on the port,
\* a server of the launcher or another program
IsPortOpen(port, other_program) ==
    \/ other_program
    \/ \E i \in DOMAIN procs : procs[i].state = "running" /\ procs[i].port = port

\* __init__ (lines 34-52)
InitLauncher ==
    /\ server_process = 0
    /\ procs = <<>>
    /\ web_data \in BOOLEAN
    /\ port_var = 8080
    /\ status = "idle"
    /\ window = "open"
    /\ QuotaIdle /\ CandidatesIdle /\ BuildIdle /\ NormIdle /\ MatcherIdle /\ SelectIdle
    /\ PickIdle /\ TopoIdle /\ AllVersesIdle /\ RerunIdle

\* the spinbox is changed (lines 77 and 115-119)
LSetPort ==
    /\ window = "open"
    /\ port_var' \in Ports \ {port_var}
    /\ UNCHANGED <<server_process, procs, web_data, status, window>>
    /\ UNCHANGED <<qvars, cvars, bvars, nvars, mvars, svars, pvars, tvars, avars, rvars>>

\* build_data (lines 170-205): the build script ends with rc 0 and has
\* written WEB_DATA, or it fails
LBuildData ==
    /\ window = "open"
    /\ \E rc \in {0, 1} :
          /\ web_data' = (web_data \/ rc = 0)
          /\ status' = IF rc = 0 THEN "build_done" ELSE "build_failed"
    /\ UNCHANGED <<server_process, procs, port_var, window>>
    /\ UNCHANGED <<qvars, cvars, bvars, nvars, mvars, svars, pvars, tvars, avars, rvars>>

\* start_server (lines 221-264).  other_program: the port is taken by
\* another program; answer: the reply to the build question; rc: the result
\* of that build; alive: the new process is still running after the sleep
\* of line 257.
LStartServer ==
    /\ window = "open"
    /\ \/ /\ ServerRunning
          /\ status' = "server_running"
          /\ UNCHANGED <<server_process, procs, web_data>>
       \/ /\ ~ServerRunning
          /\ \E other_program \in BOOLEAN :
                /\ IsPortOpen(port_var, other_program)
                /\ status' = "idle"
                /\ UNCHANGED <<server_process, procs, web_data>>
       \/ /\ ~ServerRunning
          /\ ~IsPortOpen(port_var, FALSE)
          /\ ~web_data
          /\ \E answer \in BOOLEAN, rc \in {0, 1} :
                /\ ~(answer /\ rc = 0)
                /\ status' = IF answer THEN "build_failed" ELSE status
                /\ UNCHANGED <<server_process, procs, web_data>>
       \/ /\ ~ServerRunning
          /\ ~IsPortOpen(port_var, FALSE)
          /\ Len(procs) < MaxSpawns
          /\ web_data' = TRUE
          /\ \E alive \in BOOLEAN :
                /\ procs' = Append(procs, [state |-> IF alive THEN "running" ELSE "exited",
                                           port |-> port_var])
                /\ status' = IF alive THEN "server_running" ELSE "start_failed"
          /\ server_process' = Len(procs) + 1
    /\ UNCHANGED <<port_var, window>>
    /\ UNCHANGED <<qvars, cvars, bvars, nvars, mvars, svars, pvars, tvars, avars, rvars>>

\* stop_server (lines 266-287): nothing to stop, or the process is sent
\* SIGTERM, killed if it has not exited after 3 s, and forgotten
StopServer ==
    IF ~ServerRunning
    THEN status' = "idle" /\ UNCHANGED <<server_process, procs>>
    ELSE /\ procs' = [procs EXCEPT ![server_process].state = "exited"]
         /\ server_process' = 0
         /\ status' = "server_stopped"

LStopServer ==
    /\ window = "open"
    /\ StopServer
    /\ UNCHANGED <<web_data, port_var, window>>
    /\ UNCHANGED <<qvars, cvars, bvars, nvars, mvars, svars, pvars, tvars, avars, rvars>>

\* on_exit (lines 294-300), the exit button and WM_DELETE_WINDOW (line 52)
LOnExit ==
    /\ window = "open"
    /\ StopServer
    /\ window' = "destroyed"
    /\ UNCHANGED <<web_data, port_var>>
    /\ UNCHANGED <<qvars, cvars, bvars, nvars, mvars, svars, pvars, tvars, avars, rvars>>

\* a running server process exits on its own
LServerExits ==
    /\ \E i \in DOMAIN procs :
          /\ procs[i].state = "running"
          /\ procs' = [procs EXCEPT ![i].state = "exited"]
    /\ UNCHANGED <<server_process, web_data, port_var, status, window>>
    /\ UNCHANGED <<qvars, cvars, bvars, nvars, mvars, svars, pvars, tvars, avars, rvars>>

NextLauncher ==
    \/ LSetPort
    \/ LBuildData
    \/ LStartServer
    \/ LStopServer
    \/ LOnExit
    \/ LServerExits

SpecLauncher == InitLauncher /\ [][NextLauncher]_vars

RunningServers == {i \in DOMAIN procs : procs[i].state = "running"}

\* C23: whatever start, stop and build actions were taken, at most one of the
\* server processes the launcher spawned is running, and once the window is
\* destroyed by the exit action none is.
AtMostOneServer ==
    /\ Cardinality(RunningServers) <= 1
    /\ window = "destroyed" => RunningServers = {}

\* the exit action stopped the second server the launcher had spawned
AtMostOneServerWitness ==
    /\ window = "destroyed" /\ status = "server_stopped"
    /\ Len(procs) >= 2 /\ procs[1].port # procs[2].port

-----------------------------------------------------------------------------
(* The two builders side by side: a run of build_research_dataset.py or a   *)
(* run of build_web_data.py in research mode.                               *)

InitBuilders == InitBuild \/ InitNorm

NextBuilders ==
    \/ BBuildEvidence
    \/ BBuildEdges
    \/ BValidateRows
    \/ BValidateTracks
    \/ BWriteFile
    \/ NNormalize
    \/ NWrite

SpecBuilders == InitBuilders /\ [][NextBuilders]_vars

\* The exceptions of the validation of build_research_dataset.py.
BuildErrors ==
    {"unknown_event_error", "text_error", "translation_error",
     "missing_evidence_error", "required_field_error", "dag_error"}

\* C16: in both builders a run whose validation fails has written no output
\* file, and a file is written only after the last validation check passed.
NoWriteBeforeValidation ==
    /\ build_pc \in BuildErrors => written = <<>>
    /\ written # <<>> =>
          /\ build_pc \in {"validated", "done"}
          /\ ValidateRows(event_objects, evidence_rows) = "rows_ok"
    /\ (norm_pc # "idle" /\ payload.status # "ok") => output.status = "none"
    /\ (norm_pc # "idle" /\ output.status # "none") =>
          output = payload /\ build_from_research(snapshot).status = "ok"

NoWriteBeforeValidationWitness ==
    /\ build_pc = "text_error" /\ written = <<>>
    /\ Len(event_objects) >= 2 /\ event_objects[1].has_text

-----------------------------------------------------------------------------
(* main of enrich_gospel_parallels.py: the fuzzy parallel matcher.          *)
(* An event row is [event_id, book, event_title]; event_id stands for the   *)
(* number in EVT<number>.  A title is the list of its words between blanks  *)
(* (line 17 turns every other character into a blank first).  A note is     *)
(* the record [from, score]: "parallel_from:<from>;score=<score/100>", with  *)
(* score -1 when the note carries no score (the note of the fresh build)    *)
(* and from 0 for the empty note.                                           *)

\* GOSPELS (line 12)
GOSPELS == {"Matthew", "Mark", "Luke", "John"}

\* STOPWORDS (line 13), romanised
STOPWORDS ==
    {"yesu", "yesukkeseo", "yesunim", "geuga", "geuui", "hananim", "malsseum", "jejadeul"}

\* len(t) of a word, counted in Hangul syllables
WordLen(w) ==
    CASE w = "geu" -> 1
      [] w \in {"yesuui", "yesunim", "hananim", "malsseum", "jejadeul"} -> 3
      [] w = "yesukkeseo" -> 4
      [] OTHER -> 2

\* tokens (lines 16-18)
tokens(title) ==
    {title[i] : i \in {k \in DOMAIN title :
                          WordLen(title[k]) >= 2 /\ title[k] \notin STOPWORDS}}

\* score (lines 21-28), as the fraction num/den
score(a, b) ==
    IF tokens(a) = {} \/ tokens(b) = {}
    THEN [num |-> 0, den |-> 1]
    ELSE [num |-> Cardinality(tokens(a) \cap tokens(b)),
          den |-> Cardinality(tokens(a) \cup tokens(b))]

BelowQuarter(s) == 100 * s.num < 25 * s.den

\* line 63: s < 0.35
BelowThreshold(s) == 100 * s.num < 35 * s.den

\* line 67: s > prev[0]
ScoreGreater(s, t) == s.num * t.den > t.num * s.den

\* f"{s:.2f}" (line 71) in hundredths: round to nearest; an exact tie, which
\* needs a denominator of 8, 40 or 200, goes to the even digit.
Hundredths(s) ==
    LET q == (100 * s.num) \div s.den
        r == (100 * s.num) % s.den
    IN  IF 2 * r > s.den THEN q + 1
        ELSE IF 2 * r < s.den THEN q
        ELSE IF q % 2 = 0 THEN q ELSE q + 1

NoNote == [from |-> 0, score |-> 0 - 1]

\* line 38
gospel_events(evts) == SelectSeq(evts, LAMBDA e : e.book \in GOSPELS)

NoMaxId(rows) == 0

\* lines 40-42
max_id(rows) ==
    IF rows = <<>> THEN 0
    ELSE CHOOSE m \in {rows[i].evidence_id : i \in DOMAIN rows} \cup {0} :
            \A i \in DOMAIN rows : rows[i].evidence_id <= m

\* lines 43-44 and 75: the direct rows of an event, at most 8 of them
DirectRowsOf(rows, eid) ==
    LET all == SelectSeq(rows, LAMBDA r : r.evidence_tier = "direct" /\ r.event_id = eid)
    IN  SubSeq(all, 1, Min(8, Len(all)))

NoExistingKeys(rows) == {}

\* lines 46-50
existing_parallel_keys(rows) ==
    {<<rows[i].event_id, rows[i].note>> :
        i \in {k \in DOMAIN rows :
                  rows[k].evidence_tier = "parallel" /\ rows[k].note # NoNote}}

\* lines 56-64: the positions in g of the sources of book b that qualify for
\* the target at position t
Qualifying(g, t, b) ==
    {i \in DOMAIN g :
        /\ g[i].event_id # g[t].event_id
        /\ g[i].book # g[t].book
        /\ g[i].book = b
        /\ ~BelowThreshold(score(g[t].event_title, g[i].event_title))}

FirstQualifying(g, t, q) == CHOOSE i \in q : \A j \in q : i <= j

\* lines 66-68: among the positions q, the first one of the highest score
BestOf(g, t, q) ==
    CHOOSE i \in q :
        \A j \in q :
            LET si == score(g[t].event_title, g[i].event_title)
                sj == score(g[t].event_title, g[j].event_title)
            IN  ScoreGreater(si, sj) \/ (~ScoreGreater(sj, si) /\ i <= j)

\* the position at which a book with the qualifying positions q entered
\* best_by_book
FirstOf(q) == CHOOSE i \in q : \A j \in q : i <= j

\* best_by_book (lines 55-68) for target t: per source book its entry
\* [best, first, s]
best_by_book(g, t) ==
    [b \in {c \in GOSPELS : Qualifying(g, t, c) # {}} |->
        Apply(LAMBDA q :
                Apply(LAMBDA best :
                        [best |-> best, first |-> FirstOf(q),
                         s |-> score(g[t].event_title, g[best].event_title)],
                      BestOf(g, t, q)),
              Qualifying(g, t, b))]

\* line 70: sorted(best_by_book.values(), key=score, reverse=True): the books
\* in dict order, stably sorted by falling score
RECURSIVE RankBooks(_, _)
RankBooks(entry, books) ==
    IF books = {} THEN <<>>
    ELSE Apply(LAMBDA top : <<entry[top].best>> \o RankBooks(entry, books \ {top}),
               CHOOSE b \in books : \A c \in books :
                   \/ ScoreGreater(entry[b].s, entry[c].s)
                   \/ /\ ~ScoreGreater(entry[c].s, entry[b].s)
                      /\ entry[b].first <= entry[c].first)

\* lines 55-70: the positions in g of the sources kept for target t, at most 3
Matches(g, t) ==
    Apply(LAMBDA entry :
            Apply(LAMBDA ranked : SubSeq(ranked, 1, Min(3, Len(ranked))),
                  RankBooks(entry, DOMAIN entry)),
          best_by_book(g, t))

\* line 71
NoteFor(g, t, src) ==
    [from |-> g[src].event_id,
     score |-> Hundredths(score(g[t].event_title, g[src].event_title))]

\* lines 75-89: the rows copied from source src to target t, without ids
CopiedRows(g, rows, t, src) ==
    LET src_rows == DirectRowsOf(rows, g[src].event_id)
        note == NoteFor(g, t, src)
    IN  [k \in DOMAIN src_rows |->
            [evidence_id |-> 0, event_id |-> g[t].event_id, evidence_tier |-> "parallel",
             reference |-> src_rows[k].reference,
             translation |-> src_rows[k].translation,
             is_parallel |-> "true", note |-> note]]

\* lines 70-89 for one target: the matches ms from position m on
RECURSIVE RowsForMatches(_, _, _, _, _, _)
RowsForMatches(g, rows, keys, t, ms, m) ==
    IF m > Len(ms) THEN <<>>
    ELSE (IF <<g[t].event_id, NoteFor(g, t, ms[m])>> \in keys
          THEN <<>> ELSE CopiedRows(g, rows, t, ms[m]))
         \o RowsForMatches(g, rows, keys, t, ms, m + 1)

\* lines 54-89: the targets from position t on
RECURSIVE RowsForTargets(_, _, _, _)
RowsForTargets(g, rows, keys, t) ==
    IF t > Len(g) THEN <<>>
    ELSE Apply(LAMBDA ms : RowsForMatches(g, rows, keys, t, ms, 1), Matches(g, t))
         \o RowsForTargets(g, rows, keys, t + 1)

\* lines 52-89; max_id += 1 before every appended row (lines 77-80)
additions(evts, rows) ==
    Apply(LAMBDA g :
            Apply(LAMBDA keys :
                    Apply(LAMBDA new :
                            [k \in DOMAIN new |->
                                [new[k] EXCEPT !.evidence_id = max_id(rows) + k]],
                          RowsForTargets(g, rows, keys, 1)),
                  existing_parallel_keys(rows)),
          gospel_events(evts))

\* line 93: evidence.sort(key=number of evidence_id), a stable sort: a row
\* moves behind the rows of a smaller id and the earlier rows of the same id
SortByEvidenceId(rows) ==
    LET before(j, i) ==
            \/ rows[j].evidence_id < rows[i].evidence_id
            \/ rows[j].evidence_id = rows[i].evidence_id /\ j < i
        place(i) == 1 + Cardinality({j \in DOMAIN rows : before(j, i)})
    IN  [p \in DOMAIN rows |-> rows[CHOOSE i \in DOMAIN rows : place(i) = p]]

\* The titles the events are drawn from:
\*   TBirth      "yesuui tansaeng"        tokens {yesuui, tansaeng}
\*   TForetold   "yesuui tansaeng yego"   tokens {yesuui, tansaeng, yego}
\*   TOnlyBirth  "yesu geu tansaeng"      tokens {tansaeng}: a stop word and a
\*                                        one-syllable word are dropped
\* and those of the scenario of the spec:
\*   TBaby       "agi yesuui chulsaeng"   tokens {agi, yesuui, chulsaeng}
\*   TTemple     "seongjeon jeonggyeol"   no token of the others
TBirth == <<"yesuui", "tansaeng">>
TForetold == <<"yesuui", "tansaeng", "yego">>
TOnlyBirth == <<"yesu", "geu", "tansaeng">>
TBaby == <<"agi", "yesuui", "chulsaeng">>
TTemple == <<"seongjeon", "jeonggyeol">>

MatcherBooks == {"Matthew", "Mark"}

\* events.csv as the fresh build writes it: ids 1..n in canonical order
MatcherEventInputs ==
    UNION {{[i \in 1..n |-> [event_id |-> i, book |-> bs[i], event_title |-> ts[i]]] :
               bs \in {b \in [1..n -> MatcherBooks] :
                          \A i, j \in 1..n : i < j =>
                              canonical_map(b[i]) <= canonical_map(b[j])},
               ts \in [1..n -> {TBirth, TForetold, TOnlyBirth}]}
           : n \in 1..MaxMatcherEvents}

\* The scenario of the spec: two Gospel events of different books titled
\* TBirth and TBaby, and a third Gospel event that shares no token with them.
ScenarioEvents ==
    <<[event_id |-> 1, book |-> "Matthew", event_title |-> TBirth],
      [event_id |-> 2, book |-> "Luke", event_title |-> TBaby],
      [event_id |-> 3, book |-> "John", event_title |-> TTemple]>>

\* A source book holding two candidates, and an event outside the Gospels.
CompetitionEvents ==
    <<[event_id |-> 1, book |-> "Genesis", event_title |-> TBirth],
      [event_id |-> 2, book |-> "Matthew", event_title |-> TBirth],
      [event_id |-> 3, book |-> "Mark", event_title |-> TOnlyBirth],
      [event_id |-> 4, book |-> "Mark", event_title |-> TForetold],
      [event_id |-> 5, book |-> "Luke", event_title |-> TBirth]>>

\* count[e] direct rows for every event e, in event order
RECURSIVE DirectRowsFrom(_, _)
DirectRowsFrom(count, e) ==
    IF e > Len(count) THEN <<>>
    ELSE [k \in 1..count[e] |->
             [evidence_id |-> 0, event_id |-> e, evidence_tier |-> "direct",
              reference |-> <<e, k>>, translation |-> "KRV",
              is_parallel |-> "false", note |-> NoNote]]
         \o DirectRowsFrom(count, e + 1)

\* A parallel row that is in the file before the first run: its note names
\* another event, without a score (as the fresh build writes it) or with one.
EarlierParallelRows(n) ==
    {r \in [evidence_id : {0}, event_id : 1..n, evidence_tier : {"parallel"},
            reference : {<<0, 0>>}, translation : {"KRV"}, is_parallel : {"true"},
            note : [from : 1..n, score : {0 - 1, 100}]] :
        r.note.from # r.event_id}

\* evidence_verses.csv before the first run: the direct rows of every event,
\* then at most one parallel row, the ids counting from 1 in file order.
MatcherEvidenceInputs(n) ==
    {[k \in DOMAIN rows |-> [rows[k] EXCEPT !.evidence_id = k]] :
        rows \in {DirectRowsFrom(count, 1) \o tail :
                     count \in [1..n -> 0..MaxDirectRows],
                     tail \in {<<>>} \cup {<<r>> : r \in EarlierParallelRows(n)}}}

InitMatcher ==
    /\ events \in MatcherEventInputs \cup {ScenarioEvents, CompetitionEvents}
    /\ evidence \in MatcherEvidenceInputs(Len(events))
    /\ added = <<>>
    /\ before_run = evidence
    /\ QuotaIdle /\ CandidatesIdle /\ BuildIdle /\ NormIdle /\ SelectIdle
    /\ PickIdle /\ TopoIdle /\ AllVersesIdle /\ LauncherIdle /\ RerunIdle

\* main (lines 31-111): one run; the file is rewritten only when rows were
\* added
MRun ==
    /\ Len(added) < MaxRuns
    /\ before_run' = evidence
    /\ \E new \in {additions(events, evidence)} :
          /\ \E extended \in {evidence \o new} :
                evidence' = IF new = <<>> THEN evidence ELSE SortByEvidenceId(extended)
          /\ added' = Append(added, Len(new))
    /\ UNCHANGED events
    /\ UNCHANGED <<qvars, cvars, bvars, nvars, svars>>
    /\ UNCHANGED <<pvars, tvars, avars, lvars, rvars>>

NextMatcher ==
    \/ MRun

SpecMatcher == InitMatcher /\ [][NextMatcher]_vars

\* C7: every run after the first adds zero rows and leaves the evidence file
\* as the run before left it.
MatcherIdempotent ==
    Len(added) >= 2 => (added[Len(added)] = 0 /\ evidence = before_run)

MatcherIdempotentWitness ==
    /\ Len(added) = 2 /\ added[1] > 0 /\ added[2] = 0
    /\ \E i \in DOMAIN evidence :
          evidence[i].evidence_tier = "parallel" /\ evidence[i].note.score = 100

\* The rows a run copied to target t from the direct rows of source s.
LinkedFrom(t, s) ==
    {i \in DOMAIN evidence :
        /\ evidence[i].event_id = t /\ evidence[i].evidence_tier = "parallel"
        /\ evidence[i].note.from = s /\ evidence[i].reference[1] = s}

\* C8 (as stated): in the scenario the score of the two titles is at least
\* 0.35, each of the two events is attached to the other as parallel
\* evidence, and the third event is not linked.
ScenarioLinked ==
    (events = ScenarioEvents /\ Len(added) >= 1) =>
        /\ ~BelowThreshold(score(TBirth, TBaby))
        /\ LinkedFrom(1, 2) # {} /\ LinkedFrom(2, 1) # {}
        /\ \A e \in 1..3 : LinkedFrom(3, e) = {} /\ LinkedFrom(e, 3) = {}

\* C8 (amended): in the scenario the score of the two titles is 1/4, below
\* 0.35, so a run attaches neither event to the other, and the third event,
\* which shares no token with them, is not linked either: the run adds no row.
ScenarioNotLinked ==
    (events = ScenarioEvents /\ Len(added) >= 1) =>
        /\ score(TBirth, TBaby) = [num |-> 1, den |-> 4]
        /\ BelowThreshold(score(TBirth, TBaby))
        /\ score(TBirth, TTemple).num = 0 /\ score(TBaby, TTemple).num = 0
        /\ added[1] = 0 /\ evidence = before_run
        /\ \A t, s \in 1..3 : LinkedFrom(t, s) = {}

ScenarioNotLinkedWitness ==
    /\ events = ScenarioEvents /\ Len(added) >= 1
    /\ \A e \in 1..3 : DirectRowsOf(evidence, e) # <<>>

\* The rows the latest run added: their ids are above every earlier id.
AddedByRun ==
    {i \in DOMAIN evidence : evidence[i].evidence_id > max_id(before_run)}

\* The event row of an event_id.
EventOf(eid) == events[CHOOSE k \in DOMAIN events : events[k].event_id = eid]

ScoreBetween(t, s) == score(EventOf(t).event_title, EventOf(s).event_title)

\* C18: every parallel row a run adds to a target comes from a source event
\* of the Gospel group, of another book than the target, whose score against
\* the target's title is at least 0.35 and is the highest of its book; a run
\* adds rows from at most one source per book and at most 3 sources per
\* target.
SourcesAreBestOfOtherBooks ==
    Len(added) >= 1 =>
        /\ \A i \in AddedByRun :
              LET t == evidence[i].event_id
                  s == evidence[i].note.from
              IN  /\ EventOf(t).book \in GOSPELS /\ EventOf(s).book \in GOSPELS
                  /\ EventOf(s).book # EventOf(t).book
                  /\ ~BelowThreshold(ScoreBetween(t, s))
                  /\ \A k \in DOMAIN events :
                        events[k].book = EventOf(s).book =>
                           ~ScoreGreater(ScoreBetween(t, events[k].event_id),
                                         ScoreBetween(t, s))
        /\ \A i, j \in AddedByRun :
              (/\ evidence[i].event_id = evidence[j].event_id
               /\ evidence[i].note.from # evidence[j].note.from)
                 => EventOf(evidence[i].note.from).book
                       # EventOf(evidence[j].note.from).book
        /\ \A k \in DOMAIN events :
              Cardinality({evidence[i].note.from :
                              i \in {j \in AddedByRun :
                                        evidence[j].event_id = events[k].event_id}}) <= 3

SourcesAreBestOfOtherBooksWitness ==
    /\ Len(added) = 1 /\ events = CompetitionEvents
    /\ \E i \in AddedByRun : evidence[i].event_id = 2 /\ evidence[i].note.from = 4
    /\ \E i \in AddedByRun : evidence[i].event_id = 2 /\ evidence[i].note.from = 5

\* The number of rows of rows that equal v in every field.
CountOf(rows, v) == Cardinality({i \in DOMAIN rows : rows[i] = v})

\* The rows of the file that were not in it before the latest run.
NewRows ==
    {i \in DOMAIN evidence :
        CountOf(evidence, evidence[i]) > CountOf(before_run, evidence[i])}

\* C19: a run only appends: every row present before the run is present
\* afterwards with every field unchanged, every added row has tier parallel
\* and is_parallel = true, and every added evidence_id differs from all
\* earlier ids and from the other added ones.
MatcherOnlyAppends ==
    Len(added) >= 1 =>
        /\ Len(evidence) = Len(before_run) + added[Len(added)]
        /\ \A k \in DOMAIN before_run :
              CountOf(evidence, before_run[k]) >= CountOf(before_run, before_run[k])
        /\ Cardinality(NewRows) = added[Len(added)]
        /\ \A i \in NewRows :
              /\ evidence[i].evidence_tier = "parallel"
              /\ evidence[i].is_parallel = "true"
              /\ \A j \in DOMAIN evidence :
                    j # i => evidence[j].evidence_id # evidence[i].evidence_id

MatcherOnlyAppendsWitness ==
    /\ Len(added) = 1 /\ added[1] >= 2
    /\ \E k \in DOMAIN before_run : before_run[k].evidence_tier = "parallel"
    /\ \E k \in DOMAIN before_run : before_run[k].evidence_tier = "direct"

-----------------------------------------------------------------------------
(* The files of a fresh build read by build_web_data.py in research mode.   *)
(* The rows of event_objects, evidence_rows and chronology_rows become the  *)
(* CSV rows the normalizer reads: every field is the text write_csv wrote.  *)

\* f"EVT{seq:04d}" (line 439)
EventIdText(seq) ==
    IF seq < 10 THEN "EVT000" \o ToString(seq)
    ELSE IF seq < 100 THEN "EVT00" \o ToString(seq)
    ELSE IF seq < 1000 THEN "EVT0" \o ToString(seq)
    ELSE "EVT" \o ToString(seq)

\* certainty_level (lines 364-368): "high" unless the title holds a keyword
\* of AMBIGUOUS_KEYWORDS (lines 61-71); no title of the model holds one
certainty_level(title) == "high"

\* f"{verse.book_name} {verse.chapter}:{verse.verse}" (lines 469, 502) for
\* the one verse of the slice of event obj
ReferenceText(obj) == obj.book \o " " \o ToString(obj.start_chapter) \o ":1"

\* events.csv (lines 443-455, written at 622-640)
FreshEventRows(objs) ==
    [i \in DOMAIN objs |->
        [event_id |-> EventIdText(objs[i].event_id),
         lane_tag |-> objs[i].lane,
         sequence_index |-> i,
         book |-> objs[i].book,
         certainty_level |-> certainty_level(objs[i].title)]]

\* evidence_verses.csv (lines 464-475 and 497-508)
FreshEvidenceRows(objs, rows) ==
    [k \in DOMAIN rows |->
        [event_id |-> EventIdText(rows[k].event_id),
         evidence_tier |-> rows[k].evidence_tier,
         reference |-> ReferenceText(objs[rows[k].verse_of]),
         verse_text_kr |-> IF rows[k].has_text THEN "text" ELSE "",
         translation |-> rows[k].translation,
         note |-> IF rows[k].note = 0 THEN ""
                  ELSE "parallel_from:" \o EventIdText(rows[k].note)]]

\* chronology_edges.csv (lines 519-528 and 539-548)
FreshEdgeRows(rows) ==
    [k \in DOMAIN rows |->
        [from_event_id |-> EventIdText(rows[k].from_event_id),
         to_event_id |-> EventIdText(rows[k].to_event_id),
         relation_type |-> "before",
         track_id |-> rows[k].track_id]]

\* build_from_research (lines 265-267) reads the three files of a build that
\* has written all of its files
NLoadFresh ==
    /\ build_pc = "done"
    /\ norm_pc = "idle"
    /\ snapshot' = [events |-> FreshEventRows(event_objects),
                    evidence |-> FreshEvidenceRows(event_objects, evidence_rows),
                    edges |-> FreshEdgeRows(chronology_rows)]
    /\ payload' = [status |-> "none"]
    /\ output' = [status |-> "none"]
    /\ norm_pc' = "start"
    /\ UNCHANGED <<qvars, cvars, bvars, mvars, svars>>
    /\ UNCHANGED <<pvars, tvars, avars, lvars, rvars>>

NextFreshNorm ==
    \/ BBuildEvidence
    \/ BBuildEdges
    \/ BValidateRows
    \/ BValidateTracks
    \/ BWriteFile
    \/ NLoadFresh
    \/ NNormalize
    \/ NWrite

SpecFreshNorm == InitBuild /\ [][NextFreshNorm]_vars

\* C28: in the payload normalized from the files of a fresh build, the
\* lane_tag of every event is the id of one of the payload's lanes (a lane
\* of the payload is modelled by its id).
FreshLanesCoverEvents ==
    (norm_pc \in {"done", "written"} /\ payload.status = "ok") =>
        \A i \in DOMAIN payload.events :
            \E l \in DOMAIN payload.lanes :
                payload.lanes[l] = payload.events[i].lane_tag

\* What does hold: every lane of the payload is the lane of one of its events.
FreshLanesAreUsed ==
    (norm_pc \in {"done", "written"} /\ payload.status = "ok") =>
        \A l \in DOMAIN payload.lanes :
            \E i \in DOMAIN payload.events :
                payload.events[i].lane_tag = payload.lanes[l]

-----------------------------------------------------------------------------
(* The files of a fresh build read by enrich_gospel_parallels.py.           *)

\* the words of a title between blanks, after line 17 of the matcher has
\* turned every character that is no letter and no digit into a blank
TitleWords(title) ==
    CASE title = "Feeding!" -> <<"Feeding">>
      [] title = "!" -> <<>>
      [] OTHER -> <<title>>

\* events.csv as the matcher reads it (lines 32-33)
FreshMatcherEvents(objs) ==
    [i \in DOMAIN objs |->
        [event_id |-> objs[i].event_id, book |-> objs[i].book,
         event_title |-> TitleWords(objs[i].title)]]

\* evidence_verses.csv as the matcher reads it (lines 35-36): the reference
\* names the verse of the event the row was taken from
FreshMatcherEvidence(rows) ==
    [k \in DOMAIN rows |->
        [evidence_id |-> rows[k].evidence_id,
         event_id |-> rows[k].event_id,
         evidence_tier |-> rows[k].evidence_tier,
         reference |-> <<rows[k].verse_of, 1>>,
         translation |-> rows[k].translation,
         is_parallel |-> rows[k].is_parallel,
         note |-> IF rows[k].note = 0 THEN NoNote
                  ELSE [from |-> rows[k].note, score |-> 0 - 1]]]

\* the files of a finished build are handed to the matcher
MReadFresh ==
    /\ build_pc = "done"
    /\ events = <<>> /\ evidence = <<>>
    /\ events' = FreshMatcherEvents(event_objects)
    /\ evidence' = FreshMatcherEvidence(evidence_rows)
    /\ before_run' = evidence'
    /\ added' = <<>>
    /\ build_pc' = "enriching"
    /\ UNCHANGED <<event_objects, evidence_rows, chronology_rows, written>>
    /\ UNCHANGED <<qvars, cvars, nvars, svars>>
    /\ UNCHANGED <<pvars, tvars, avars, lvars, rvars>>

\* main of the matcher on those files
MRunFresh == build_pc = "enriching" /\ MRun

NextFreshMatch ==
    \/ BBuildEvidence
    \/ BBuildEdges
    \/ BValidateRows
    \/ BValidateTracks
    \/ BWriteFile
    \/ MReadFresh
    \/ MRunFresh

SpecFreshMatch == InitBuild /\ [][NextFreshMatch]_vars

\* The parallel rows of target event t that carry the verses of source s.
ParallelRowsFrom(rows, t, s) ==
    {k \in DOMAIN rows : /\ rows[k].event_id = t
                         /\ rows[k].evidence_tier = "parallel"
                         /\ rows[k].note.from = s}

\* C29: a run of the matcher on the files of a fresh build adds no parallel
\* row to a target that had parallel rows of the same source before the run.
FuzzyAddsNoRepeatedSource ==
    (build_pc = "enriching" /\ added # <<>>) =>
        \A t, s \in DOMAIN events :
            ParallelRowsFrom(before_run, t, s) # {} =>
                Cardinality(ParallelRowsFrom(evidence, t, s))
                    = Cardinality(ParallelRowsFrom(before_run, t, s))

\* What does hold: a second run adds nothing, whatever the first one added.
FuzzyRerunAddsNothing ==
    (build_pc = "enriching" /\ Len(added) >= 2) =>
        \A r \in 2..Len(added) : added[r] = 0

-----------------------------------------------------------------------------
(* Two runs of main of build_research_dataset.py (lines 419-456) on one     *)
(* source folder.  What a run cannot fix is the order in which the folder   *)
(* lists its files; everything else is computed from the files.  A file is  *)
(* [path, canonical_order, book_name, headings]: path stands for the place  *)
(* of the file's path among all paths in sorted order, canonical_order and  *)
(* book_name are what FILENAME_RE reads from the name (lines 159-167), and  *)
(* headings is the number of candidates of the book, candidate k starting   *)
(* at verse k of chapter 1.  A candidate is [book, start_idx, book_name],   *)
(* book being its canonical_order as in the sections above.                 *)

\* "1-01Exodus.txt", "1-01Genesis.txt", "1-02Joshua.txt": two names carry
\* the same order number
RerunFiles ==
    {[path |-> 1, canonical_order |-> 1, book_name |-> "Exodus"],
     [path |-> 2, canonical_order |-> 1, book_name |-> "Genesis"],
     [path |-> 3, canonical_order |-> 2, book_name |-> "Joshua"]}

\* list.sort(key=...) and sorted(key=...): Before compares the keys, and
\* elements of equal keys keep their order (also with reverse=True)
StableSort(s, Before(_, _)) ==
    LET place(i) == 1 + Cardinality({j \in DOMAIN s :
                            \/ Before(s[j], s[i])
                            \/ ~Before(s[i], s[j]) /\ j < i})
    IN  [p \in DOMAIN s |-> s[CHOOSE i \in DOMAIN s : place(i) = p]]

ListingAsIs(listing) == listing

\* sorted(source_dir.iterdir()) (line 156): by_book gets its books in the
\* order of their paths
SortedListing(listing) == StableSort(listing, LAMBDA f, g : f.path < g.path)

\* lines 210-252 for one book
FileCandidates(f) ==
    [k \in 1..f.headings |->
        [book |-> f.canonical_order, start_idx |-> k, book_name |-> f.book_name]]

\* lines 210-252: the candidates of the books in the order of by_book
RECURSIVE CandidatesInOrder(_)
CandidatesInOrder(loaded) ==
    IF loaded = <<>> THEN <<>>
    ELSE FileCandidates(Head(loaded)) \o CandidatesInOrder(Tail(loaded))

\* lines 207-255: the stable sort of line 254 ends the function
build_candidate_events(loaded) == SortCandidates(CandidatesInOrder(loaded))

\* lines 422-426: the keys of grouped, in the order of their first candidate
GroupedKeys(cands) ==
    LET firsts == SelectSeq(
                    [k \in DOMAIN cands |->
                        [book_name |-> cands[k].book_name,
                         first |-> \A j \in 1..(k - 1) :
                                       cands[j].book_name # cands[k].book_name]],
                    LAMBDA e : e.first)
    IN  [k \in DOMAIN firsts |-> firsts[k].book_name]

\* grouped[book]
GroupOf(cands, book_name) == SelectSeq(cands, LAMBDA c : c.book_name = book_name)

\* sum(quotas.values())
QuotaSum(q, books) == SumSeq([i \in DOMAIN books |-> q[books[i]]])

\* fractions[a] < fractions[b] (lines 268-271, 275, 288) in floating point:
\* the exact fractions decide when they differ; when they are equal the
\* float keys are equal for equal counts, and for different counts they
\* compare as noise, a function of the count, says
FractionBelow(a, b, counts, total, tgt, noise) ==
    \/ (tgt * counts[a]) % total < (tgt * counts[b]) % total
    \/ /\ (tgt * counts[a]) % total = (tgt * counts[b]) % total
       /\ noise[counts[a]] < noise[counts[b]]

\* lines 277-284
RECURSIVE ExpandLoop(_, _, _, _, _, _)
ExpandLoop(q, books, counts, tgt, expandable, i) ==
    IF ~(QuotaSum(q, books) < tgt /\ expandable # <<>>) THEN q
    ELSE LET book == expandable[(i % Len(expandable)) + 1]
             next == IF q[book] < counts[book] THEN [q EXCEPT ![book] = @ + 1] ELSE q
         IN  IF i + 1 > Len(expandable) * (tgt + 2) THEN next
             ELSE ExpandLoop(next, books, counts, tgt, expandable, i + 1)

\* lines 290-297
RECURSIVE ReduceLoop(_, _, _, _, _)
ReduceLoop(q, books, tgt, reducible, i) ==
    IF ~(QuotaSum(q, books) > tgt /\ reducible # <<>>) THEN q
    ELSE LET book == reducible[(i % Len(reducible)) + 1]
             next == IF q[book] > 1 THEN [q EXCEPT ![book] = @ - 1] ELSE q
         IN  IF i + 1 > Len(reducible) * (tgt + 2) THEN next
             ELSE ReduceLoop(next, books, tgt, reducible, i + 1)

\* proportional_quotas (lines 258-299) as a function of the dictionary
\* group_counts: books is the order of its keys, counts its values
QuotasOf(books, counts, tgt, noise) ==
    LET total == SumSeq([i \in DOMAIN books |-> counts[books[i]]])
        names == {books[i] : i \in DOMAIN books}
        floor_cap == [b \in names |-> Min(Max(1, (tgt * counts[b]) \div total), counts[b])]
        expandable ==
            StableSort(SelectSeq(books, LAMBDA b : floor_cap[b] < counts[b]),
                       LAMBDA a, b : FractionBelow(b, a, counts, total, tgt, noise))
        expanded ==
            IF QuotaSum(floor_cap, books) < tgt
            THEN ExpandLoop(floor_cap, books, counts, tgt, expandable, 0)
            ELSE floor_cap
        reducible ==
            StableSort(SelectSeq(books, LAMBDA b : expanded[b] > 1),
                       LAMBDA a, b : FractionBelow(a, b, counts, total, tgt, noise))
    IN  IF total = 0 THEN [b \in names |-> 0]
        ELSE IF QuotaSum(expanded, books) > tgt
        THEN ReduceLoop(expanded, books, tgt, reducible, 0)
        ELSE expanded

\* lines 429-431: the picks of the books, the books taken in the stable
\* order of their canonical_order
RECURSIVE PicksOf(_, _, _)
PicksOf(cands, q, books) ==
    IF books = <<>> THEN <<>>
    ELSE pick_evenly(GroupOf(cands, Head(books)), q[Head(books)])
         \o PicksOf(cands, q, Tail(books))

\* lines 419-456: what one run computes from the files in the order the
\* folder lists them
RunResult(listing, tgt, noise) ==
    LET loaded == SelectSeq(SortedListing(listing), LAMBDA f : f.headings > 0)
        cands == build_candidate_events(loaded)
        books == GroupedKeys(cands)
        counts == [b \in {books[i] : i \in DOMAIN books} |-> Len(GroupOf(cands, b))]
        q == QuotasOf(books, counts, tgt, noise)
        order_of == [b \in DOMAIN counts |-> GroupOf(cands, b)[1].book]
        by_order == StableSort(books, LAMBDA a, b : order_of[a] < order_of[b])
        selected == SortCandidates(PicksOf(cands, q, by_order))
    IN  [quotas |-> [i \in DOMAIN books |-> <<books[i], q[books[i]]>>],
         selected_candidates |-> selected,
         events_rows |-> [seq \in DOMAIN selected |->
                            [event_id |-> EventIdOf(seq), sequence_index |-> seq,
                             candidate |-> selected[seq]]]]

\* The folders: some of the files, each with up to MaxHeadings candidates;
\* TARGET_EVENTS (line 30) is scaled down to 1..MaxRerunTarget.
InitRerun ==
    /\ \E files \in SUBSET RerunFiles \ {{}} :
          \E headings \in [files -> 0..MaxHeadings], tgt \in 1..MaxRerunTarget :
             rr_corpus =
                [folder |-> {[path |-> f.path, canonical_order |-> f.canonical_order,
                              book_name |-> f.book_name, headings |-> headings[f]] :
                                f \in files},
                 target |-> tgt]
    /\ rr_noise \in [1..MaxHeadings -> 0..1]
    /\ rr_runs = <<>>
    /\ QuotaIdle /\ CandidatesIdle /\ BuildIdle /\ NormIdle /\ MatcherIdle /\ SelectIdle
    /\ PickIdle /\ TopoIdle /\ AllVersesIdle /\ LauncherIdle

\* one run of main, the folder listing its files in any order; a second run
\* follows the first
RRun ==
    /\ Len(rr_runs) < 2
    /\ \E listing \in Arrangements(rr_corpus.folder) :
          rr_runs' = Append(rr_runs,
                            [listing |-> listing,
                             result |-> RunResult(listing, rr_corpus.target, rr_noise)])
    /\ UNCHANGED <<rr_corpus, rr_noise>>
    /\ UNCHANGED <<qvars, cvars, bvars, nvars, mvars, svars>>
    /\ UNCHANGED <<pvars, tvars, avars, lvars>>

NextRerun ==
    \/ RRun

SpecRerun == InitRerun /\ [][NextRerun]_vars

\* C22: two runs on the same folder compute the same quotas, the same
\* selected candidates in the same order and the same event ids, in
\* whatever order the folder lists its files in each run.
RerunsAgree ==
    \A i, j \in DOMAIN rr_runs : rr_runs[i].result = rr_runs[j].result

\* Two runs that saw the files in different orders, on a folder where two
\* books of the same order number have candidates starting at the same verse
\* and the quotas had to be corrected after the floor.
RerunsAgreeWitness ==
    /\ Len(rr_runs) = 2
    /\ rr_runs[1].listing # rr_runs[2].listing
    /\ \E f, g \in rr_corpus.folder :
          /\ f # g /\ f.canonical_order = g.canonical_order
          /\ f.headings >= 1 /\ g.headings >= 1
    /\ Len(rr_runs[1].result.selected_candidates) >= 2
    /\ \E i \in DOMAIN rr_runs[1].result.quotas :
          rr_runs[1].result.quotas[i][2] >= 2

====
